---------------------------- MODULE Spec2Model ----------------------------
(***************************************************************************)
(* Model of the external-tool wrappers of cai/tools (gobuster, feroxbuster,*)
(* dnsrecon, nuclei, nmap, nikto, enum4linux, hashcat, linpeas) and of the *)
(* HackerOne/Bugcrowd clients.  Text is modelled as TLA+ strings and the   *)
(* Python string methods the wrappers call are computed character by       *)
(* character, so the parsers below run on the same text the code reads.    *)
(***************************************************************************)
EXTENDS Integers, Sequences, FiniteSets, TLC

(***************************************************************************)
(* Python str methods used by the wrappers.                                *)
(***************************************************************************)
WhiteSpace == {" ", "\t", "\n", "\r"}

Digits == {"0", "1", "2", "3", "4", "5", "6", "7", "8", "9"}

CharAt(s, i) == SubSeq(s, i, i)

Drop(s, n) == SubSeq(s, n + 1, Len(s))

Take(s, n) == SubSeq(s, 1, n)

\* s.startswith(p)
StartsWith(s, p) == Len(s) >= Len(p) /\ Take(s, Len(p)) = p

\* s.endswith(p)
EndsWith(s, p) == Len(s) >= Len(p) /\ Drop(s, Len(s) - Len(p)) = p

\* sub in s
Contains(s, sub) ==
    \E i \in 0..(Len(s) - Len(sub)) : SubSeq(s, i + 1, i + Len(sub)) = sub

\* s.find(sub) + 1, or 0 when sub does not occur
FindFirst(s, sub) ==
    IF Contains(s, sub)
    THEN CHOOSE i \in 1..(Len(s) - Len(sub) + 1) :
            /\ SubSeq(s, i, i + Len(sub) - 1) = sub
            /\ \A j \in 1..(i - 1) : SubSeq(s, j, j + Len(sub) - 1) # sub
    ELSE 0

RECURSIVE LStripSet(_, _)
LStripSet(s, chars) ==
    IF s # "" /\ CharAt(s, 1) \in chars THEN LStripSet(Drop(s, 1), chars) ELSE s

RECURSIVE RStripSet(_, _)
\* s.rstrip(chars)
RStripSet(s, chars) ==
    IF s # "" /\ CharAt(s, Len(s)) \in chars
    THEN RStripSet(Take(s, Len(s) - 1), chars)
    ELSE s

\* s.strip()
Strip(s) == RStripSet(LStripSet(s, WhiteSpace), WhiteSpace)

RECURSIVE SplitSep(_, _)
\* s.split(sep) for a non-empty separator: empty fields are kept
SplitSep(s, sep) ==
    LET i == FindFirst(s, sep)
    IN  IF i = 0 THEN <<s>>
        ELSE <<Take(s, i - 1)>> \o SplitSep(Drop(s, i + Len(sep) - 1), sep)

\* s.split(sep, 1)
SplitOnce(s, sep) ==
    LET i == FindFirst(s, sep)
    IN  IF i = 0 THEN <<s>>
        ELSE <<Take(s, i - 1), Drop(s, i + Len(sep) - 1)>>

RECURSIVE WordEnd(_, _)
\* index of the last character of the run of non-blanks starting at i
WordEnd(s, i) ==
    IF i < Len(s) /\ CharAt(s, i + 1) \notin WhiteSpace THEN WordEnd(s, i + 1) ELSE i

RECURSIVE SplitWS(_)
\* s.split(): fields are maximal runs of non-blanks, none is empty
SplitWS(s) ==
    LET t == LStripSet(s, WhiteSpace)
    IN  IF t = "" THEN <<>>
        ELSE LET e == WordEnd(t, 1)
             IN  <<Take(t, e)>> \o SplitWS(Drop(t, e))

RECURSIVE Replace(_, _, _)
\* s.replace(old, new) for a non-empty old
Replace(s, old, new) ==
    LET i == FindFirst(s, old)
    IN  IF i = 0 THEN s
        ELSE Take(s, i - 1) \o new \o Replace(Drop(s, i + Len(old) - 1), old, new)

UpperCase == "ABCDEFGHIJKLMNOPQRSTUVWXYZ"

LowerCase == "abcdefghijklmnopqrstuvwxyz"

RECURSIVE Lower(_)
\* s.lower()
Lower(s) ==
    IF s = "" THEN ""
    ELSE LET c == CharAt(s, 1)
             k == FindFirst(UpperCase, c)
         IN  (IF k = 0 THEN c ELSE CharAt(LowerCase, k)) \o Lower(Drop(s, 1))

\* characters str.isdigit() accepts that are no decimal digits for int()
SuperscriptDigits == {"¹", "²", "³"}

\* s.isdigit()
IsDigit(s) ==
    s # "" /\ \A i \in 1..Len(s) : CharAt(s, i) \in Digits \cup SuperscriptDigits

\* s.isdigit() and s.isascii(): the strings int(s) turns into a number
IsDecimal(s) == s # "" /\ \A i \in 1..Len(s) : CharAt(s, i) \in Digits

RECURSIVE JoinWith(_, _)
\* sep.join(parts)
JoinWith(parts, sep) ==
    IF parts = <<>> THEN ""
    ELSE IF Len(parts) = 1 THEN parts[1]
    ELSE parts[1] \o sep \o JoinWith(Tail(parts), sep)

\* str(n) for the exit codes the model uses
RECURSIVE IntToStr(_)
IntToStr(n) ==
    LET d == <<"0", "1", "2", "3", "4", "5", "6", "7", "8", "9">>
    IN  IF n < 10 THEN d[n + 1] ELSE IntToStr(n \div 10) \o d[(n % 10) + 1]

\* opt in command, for a Python list
InSeq(e, seq) == \E k \in 1..Len(seq) : seq[k] = e

RECURSIVE Flatten(_)
\* the concatenation of a sequence of sequences
Flatten(ss) == IF ss = <<>> THEN <<>> ELSE Head(ss) \o Flatten(Tail(ss))

(***************************************************************************)
(* json.loads / json.load, for compact JSON text (no blanks between        *)
(* tokens, no escapes, no negative or fractional numbers): objects,        *)
(* arrays, strings, digit runs and the three literals.  A value is a       *)
(* record [t, v]: t names the Python type the text decodes to.  Any other  *)
(* text is a JSONDecodeError: ok = FALSE.                                  *)
(***************************************************************************)
JNull == [t |-> "lit", v |-> "null"]

JFalse == [t |-> "lit", v |-> "false"]

JStr(s) == [t |-> "str", v |-> s]

JFail == [ok |-> FALSE, val |-> JNull, rest |-> ""]

RECURSIVE DigitRun(_, _)
\* length of the run of digits of s that starts at index i + 1
DigitRun(s, i) ==
    IF i < Len(s) /\ CharAt(s, i + 1) \in Digits THEN DigitRun(s, i + 1) ELSE i

EmptyObject == [k \in {} |-> JNull]

RECURSIVE JValue(_)
RECURSIVE JMembers(_, _)
RECURSIVE JElements(_, _)
\* one JSON value at the head of s
JValue(s) ==
    IF s = "" THEN JFail
    ELSE IF CharAt(s, 1) = "{" THEN
        IF StartsWith(s, "{}")
        THEN [ok |-> TRUE, val |-> [t |-> "obj", v |-> EmptyObject], rest |-> Drop(s, 2)]
        ELSE JMembers(Drop(s, 1), EmptyObject)
    ELSE IF CharAt(s, 1) = "[" THEN
        IF StartsWith(s, "[]")
        THEN [ok |-> TRUE, val |-> [t |-> "arr", v |-> <<>>], rest |-> Drop(s, 2)]
        ELSE JElements(Drop(s, 1), <<>>)
    ELSE IF CharAt(s, 1) = "\"" THEN
        LET e == FindFirst(Drop(s, 1), "\"")
        IN  IF e = 0 THEN JFail
            ELSE [ok |-> TRUE, val |-> JStr(SubSeq(s, 2, e)), rest |-> Drop(s, e + 1)]
    ELSE IF CharAt(s, 1) \in Digits THEN
        LET e == DigitRun(s, 0)
        IN  [ok |-> TRUE, val |-> [t |-> "num", v |-> Take(s, e)], rest |-> Drop(s, e)]
    ELSE IF \E w \in {"true", "false", "null"} : StartsWith(s, w) THEN
        LET w == CHOOSE w \in {"true", "false", "null"} : StartsWith(s, w)
        IN  [ok |-> TRUE, val |-> [t |-> "lit", v |-> w], rest |-> Drop(s, Len(w))]
    ELSE JFail

\* the members of an object after its "{" or a ",", up to and including "}"
JMembers(s, acc) ==
    LET key == JValue(s)
    IN  IF ~key.ok \/ key.val.t # "str" \/ ~StartsWith(key.rest, ":") THEN JFail
        ELSE LET item == JValue(Drop(key.rest, 1))
                 obj  == (key.val.v :> item.val) @@ acc
             IN  IF ~item.ok THEN JFail
                 ELSE IF StartsWith(item.rest, ",") THEN JMembers(Drop(item.rest, 1), obj)
                 ELSE IF StartsWith(item.rest, "}")
                 THEN [ok |-> TRUE, val |-> [t |-> "obj", v |-> obj],
                       rest |-> Drop(item.rest, 1)]
                 ELSE JFail

\* the elements of an array after its "[" or a ",", up to and including "]"
JElements(s, acc) ==
    LET item == JValue(s)
    IN  IF ~item.ok THEN JFail
        ELSE IF StartsWith(item.rest, ",")
        THEN JElements(Drop(item.rest, 1), Append(acc, item.val))
        ELSE IF StartsWith(item.rest, "]")
        THEN [ok |-> TRUE, val |-> [t |-> "arr", v |-> Append(acc, item.val)],
              rest |-> Drop(item.rest, 1)]
        ELSE JFail

\* json.loads(text): the whole text, blanks around it ignored, is one value
JsonLoads(text) ==
    LET r == JValue(Strip(text))
    IN  IF r.ok /\ r.rest = "" THEN [ok |-> TRUE, val |-> r.val]
        ELSE [ok |-> FALSE, val |-> JNull]

\* data.get(key) on a decoded object: None when the key is absent
JGet(data, key) == IF key \in DOMAIN data.v THEN data.v[key] ELSE JNull

(***************************************************************************)
(* Values shared by the wrappers.                                          *)
(***************************************************************************)
\* Python's None where a str is expected
PyNone == "<None>"

\* "<Tool> process exited with error code <rc>." plus " Stderr: <stderr>"
ExitMessage(name, rc, stderr) ==
    name \o " process exited with error code " \o IntToStr(rc) \o "."
        \o (IF stderr # "" THEN " Stderr: " \o Strip(stderr) ELSE "")

\* the text a file holds, as open(path) finds it: absent, or its text and writer
NoFile == [exists |-> FALSE, text |-> "", by |-> 0]

FileOf(text, writer) == [exists |-> TRUE, text |-> text, by |-> writer]

(***************************************************************************)
(* gobuster_tool.py                                                        *)
(***************************************************************************)
GobusterScratch == "/tmp/gobuster_output.txt"

\* the command list of run_gobuster_dir
gobuster_dir_command(target_url, wordlist, options) ==
    LET c1 == <<"gobuster", "dir", "-u", target_url, "-w", wordlist>> \o options
        c2 == IF ~InSeq("-q", c1) THEN Append(c1, "-q") ELSE c1
    IN  IF ~InSeq("-o", c2) /\ ~InSeq("--output", c2)
        THEN c2 \o <<"-o", GobusterScratch>>
        ELSE c2

\* the value the loop over parts leaves: taken from the last part with the prefix
GobusterField(parts, prefix, closing) ==
    LET hits == {k \in 1..Len(parts) : StartsWith(parts[k], prefix)}
    IN  IF hits = {} THEN PyNone
        ELSE LET k == CHOOSE m \in hits : \A n \in hits : n <= m
             IN  RStripSet(Replace(parts[k], prefix, ""), {closing})

\* the records one line adds: none unless it splits into three parts or more
GobusterRecord(line, target_url) ==
    LET parts == SplitWS(line)
    IN  IF Len(parts) >= 3
        THEN <<[path     |-> parts[1],
                status   |-> GobusterField(parts, "Status:", ")"),
                size     |-> GobusterField(parts, "[Size:", "]"),
                full_url |-> RStripSet(target_url, {"/"}) \o parts[1]]>>
        ELSE <<>>

\* discovered_paths after the loop over process.stdout
gobuster_dir_stdout(stdout, target_url) ==
    IF stdout = "" THEN <<>>
    ELSE LET lines == SplitSep(Strip(stdout), "\n")
         IN  Flatten([k \in 1..Len(lines) |->
                 IF lines[k] # "" /\ ~StartsWith(lines[k], "=")
                 THEN GobusterRecord(lines[k], target_url)
                 ELSE <<>>])

RECURSIVE GobusterFileLines(_, _, _)
\* discovered_paths after the loop over the lines of the output file
GobusterFileLines(lines, paths, target_url) ==
    IF lines = <<>> THEN paths
    ELSE LET line == Strip(Head(lines))
             rec  == IF line # "" /\ ~StartsWith(line, "=")
                     THEN GobusterRecord(line, target_url)
                     ELSE <<>>
             new  == IF rec # <<>> /\ ~\E k \in 1..Len(paths) : paths[k].path = rec[1].path
                     THEN rec
                     ELSE <<>>
         IN  GobusterFileLines(Tail(lines), paths \o new, target_url)

\* discovered_paths once stdout and the output file, if any, are read
gobuster_dir_parse(stdout, file, target_url) ==
    LET paths == gobuster_dir_stdout(stdout, target_url)
    IN  IF file.exists
        THEN GobusterFileLines(SplitSep(file.text, "\n"), paths, target_url)
        ELSE paths

\* what run_gobuster_dir has in hand after the exit-code test: the dictionary,
\* and whether it returns at once, before the output file is removed
gobuster_dir_classify(paths, rc, stderr) ==
    LET error_message == ExitMessage("Gobuster", rc, stderr)
    IN  IF rc # 0 /\ paths = <<>>
        THEN [early |-> TRUE, value |-> [error |-> error_message]]
        ELSE IF rc # 0
        THEN [early |-> FALSE,
              value |-> [discovered_paths |-> paths, warning |-> error_message]]
        ELSE [early |-> FALSE, value |-> [discovered_paths |-> paths]]

\* the command list of run_gobuster_dns
gobuster_dns_command(domain, wordlist, options) ==
    LET c1 == <<"gobuster", "dns", "-d", domain, "-w", wordlist>> \o options
    IN  IF ~InSeq("-q", c1) THEN Append(c1, "-q") ELSE c1

\* discovered_subdomains after the loop over process.stdout
gobuster_dns_parse(stdout, domain) ==
    IF stdout = "" THEN <<>>
    ELSE LET lines == SplitSep(Strip(stdout), "\n")
         IN  Flatten([k \in 1..Len(lines) |->
                 IF lines[k] # "" /\ Contains(lines[k], "Found:")
                 THEN <<[subdomain |-> Strip(Replace(lines[k], "Found:", "")),
                         domain    |-> domain]>>
                 ELSE <<>>])

\* the dictionary run_gobuster_dns returns once the process has exited
gobuster_dns_classify(subs, stderr, rc) ==
    LET error_message == ExitMessage("Gobuster DNS", rc, stderr)
    IN  IF rc # 0 /\ subs = <<>> THEN [error |-> error_message]
        ELSE IF rc # 0 THEN [discovered_subdomains |-> subs, warning |-> error_message]
        ELSE [discovered_subdomains |-> subs]

\* run_gobuster_dns from the finished process to its return
gobuster_dns_result(stdout, stderr, rc, domain) ==
    gobuster_dns_classify(gobuster_dns_parse(stdout, domain), stderr, rc)

(***************************************************************************)
(* feroxbuster_tool.py                                                     *)
(***************************************************************************)
\* the command list of run_feroxbuster_scan
feroxbuster_command(target_url, wordlist, options) ==
    LET c1 == <<"feroxbuster", "-u", target_url, "-w", wordlist>> \o options
        c2 == IF ~InSeq("--json", c1) /\ ~InSeq("-j", c1) THEN Append(c1, "--json") ELSE c1
    IN  IF ~InSeq("--quiet", c2) /\ ~InSeq("-q", c2) THEN Append(c2, "--quiet") ELSE c2

\* type(data).__name__ of a decoded value
PyTypeName(val) ==
    CASE val.t = "obj" -> "dict"
      [] val.t = "arr" -> "list"
      [] val.t = "str" -> "str"
      [] val.t = "num" -> "int"
      [] val.t = "lit" /\ val.v = "null" -> "NoneType"
      [] OTHER -> "bool"

\* the record of a line that is not JSON, read as "status size ... url"
FeroxTextRecord(line) ==
    LET parts == SplitWS(line)
    IN  IF /\ Contains(line, " ")
           /\ \E code \in {"200", "301", "302", "403", "404", "500"} : Contains(line, code)
           /\ Len(parts) >= 3
        THEN <<[url            |-> JStr(parts[Len(parts)]),
                status         |-> JStr(parts[1]),
                content_length |-> IF IsDigit(parts[2]) THEN JStr(parts[2]) ELSE JNull,
                method         |-> JStr("GET"),
                wildcard       |-> JFalse]>>
        ELSE <<>>

\* what one stdout line does to the scan: the records it adds, or the
\* AttributeError of data.get on a decoded value that is not a dict
FeroxLine(line) ==
    IF Strip(line) = "" THEN [raised |-> "", recs |-> <<>>]
    ELSE LET data == JsonLoads(line)
         IN  IF ~data.ok THEN [raised |-> "", recs |-> FeroxTextRecord(line)]
             ELSE IF data.val.t # "obj"
             THEN [raised |-> "'" \o PyTypeName(data.val)
                                  \o "' object has no attribute 'get'",
                   recs   |-> <<>>]
             ELSE IF JGet(data.val, "type") = JStr("response")
             THEN [raised |-> "",
                   recs   |-> <<[url            |-> JGet(data.val, "url"),
                                 status         |-> JGet(data.val, "status"),
                                 content_length |-> JGet(data.val, "content_length"),
                                 line_count     |-> JGet(data.val, "line_count"),
                                 word_count     |-> JGet(data.val, "word_count"),
                                 method         |-> JGet(data.val, "method"),
                                 wildcard       |-> IF "wildcard" \in DOMAIN data.val.v
                                                    THEN data.val.v["wildcard"]
                                                    ELSE JFalse]>>]
             ELSE [raised |-> "", recs |-> <<>>]

RECURSIVE FeroxLines(_, _)
\* the loop over stdout: it stops at the first line that raises
FeroxLines(lines, content) ==
    IF lines = <<>> THEN [raised |-> "", recs |-> content]
    ELSE LET one == FeroxLine(Head(lines))
         IN  IF one.raised # "" THEN [raised |-> one.raised, recs |-> content]
             ELSE FeroxLines(Tail(lines), content \o one.recs)

\* discovered_content after the loop over process.stdout, or the exception
feroxbuster_parse(stdout) ==
    IF stdout = "" THEN [raised |-> "", recs |-> <<>>]
    ELSE FeroxLines(SplitSep(Strip(stdout), "\n"), <<>>)

\* the dictionary run_feroxbuster_scan returns once the process has exited
feroxbuster_classify(parsed, stderr, rc) ==
    LET error_message == ExitMessage("Feroxbuster", rc, stderr)
    IN  IF parsed.raised # ""
        THEN [error |-> "An unexpected error occurred while running feroxbuster: "
                            \o parsed.raised]
        ELSE IF rc # 0 /\ parsed.recs = <<>> THEN [error |-> error_message]
        ELSE IF rc # 0 THEN [discovered_content |-> parsed.recs, warning |-> error_message]
        ELSE [discovered_content |-> parsed.recs]

\* run_feroxbuster_scan from the finished process to its return
feroxbuster_result(stdout, stderr, rc) ==
    feroxbuster_classify(feroxbuster_parse(stdout), stderr, rc)

(***************************************************************************)
(* nuclei_tool.py                                                          *)
(***************************************************************************)
\* the options that survive the filter on JSON output flags
NucleiSafeOptions(options) ==
    Flatten([k \in 1..Len(options) |->
        IF StartsWith(Lower(options[k]), "-json") \/ StartsWith(Lower(options[k]), "-jsonl")
        THEN <<>>
        ELSE <<options[k]>>])

\* the command list of run_nuclei_scan, called without templates
nuclei_command(target_urls, options) ==
    <<"nuclei">> \o Flatten([k \in 1..Len(target_urls) |-> <<"-u", target_urls[k]>>])
        \o NucleiSafeOptions(options) \o <<"-jsonl">>

\* findings after the loop over process.stdout: every line that decodes
nuclei_parse(stdout) ==
    IF stdout = "" THEN <<>>
    ELSE LET lines == SplitSep(Strip(stdout), "\n")
         IN  Flatten([k \in 1..Len(lines) |->
                 IF lines[k] # "" /\ JsonLoads(lines[k]).ok
                 THEN <<JsonLoads(lines[k]).val>>
                 ELSE <<>>])

\* the dictionary run_nuclei_scan returns once the process has exited
nuclei_classify(findings, stderr, rc) ==
    LET result   == IF rc # 0
                    THEN [findings |-> findings,
                          warning  |-> ExitMessage("Nuclei", rc, stderr)]
                    ELSE IF stderr # ""
                    THEN [findings |-> findings, info |-> Strip(stderr)]
                    ELSE [findings |-> findings]
    IN  IF findings = <<>> /\ "warning" \in DOMAIN result
        THEN [error |-> result.warning, stderr |-> IF stderr # "" THEN Strip(stderr) ELSE ""]
        ELSE result

\* run_nuclei_scan from the finished process to its return
nuclei_result(stdout, stderr, rc) == nuclei_classify(nuclei_parse(stdout), stderr, rc)

(***************************************************************************)
(* dnsrecon_tool.py                                                        *)
(***************************************************************************)
DnsreconScratch == "/tmp/dnsrecon_output.json"

\* the command list of run_dnsrecon_scan
dnsrecon_command(domain, scan_type, options) ==
    LET c1 == <<"dnsrecon", "-d", domain, "-t", scan_type>> \o options
    IN  IF ~InSeq("-j", c1) /\ ~InSeq("--json", c1)
        THEN c1 \o <<"-j", DnsreconScratch>>
        ELSE c1

DnsRecordTypes == {"A", "AAAA", "CNAME", "MX", "NS", "SOA", "TXT"}

\* the record a stdout line adds in the fallback, if any
DnsreconTextRecord(raw) ==
    LET line  == Strip(raw)
        parts == SplitWS(line)
    IN  IF /\ line # ""
           /\ ~StartsWith(line, "[")
           /\ \E record_type \in DnsRecordTypes : Contains(line, record_type)
           /\ Len(parts) >= 3
        THEN <<[type  |-> IF parts[1] \in DnsRecordTypes THEN parts[1] ELSE "Unknown",
                name  |-> parts[2],
                value |-> JoinWith(SubSeq(parts, 3, Len(parts)), " "),
                raw   |-> line]>>
        ELSE <<>>

\* dns_records of the fallback over process.stdout
dnsrecon_stdout(stdout) ==
    IF stdout = "" THEN <<>>
    ELSE LET lines == SplitSep(Strip(stdout), "\n")
         IN  Flatten([k \in 1..Len(lines) |-> DnsreconTextRecord(lines[k])])

\* a run_dnsrecon_scan that adds the records of stdout to those of the file
dnsrecon_merge_mixed(doc, file, stdout, scan_type, domain) ==
    LET results == [dns_records |-> <<>>, scan_type |-> scan_type, domain |-> domain]
    IN  IF file.exists /\ doc.ok /\ doc.val.t = "arr"
        THEN [results EXCEPT !.dns_records = doc.val.v \o dnsrecon_stdout(stdout)]
        ELSE [results EXCEPT !.dns_records = dnsrecon_stdout(stdout)]

\* results after the output file, or else stdout, is read; doc is what
\* json.load makes of the file.  The file is used when it exists and its text
\* decodes.  dnsrecon writes an array; an object is merged into results by
\* results.update
dnsrecon_merge(doc, file, stdout, scan_type, domain) ==
    LET results == [dns_records |-> <<>>, scan_type |-> scan_type, domain |-> domain]
    IN  IF file.exists /\ doc.ok
        THEN IF doc.val.t = "arr" THEN [results EXCEPT !.dns_records = doc.val.v]
             ELSE IF doc.val.t = "obj" THEN doc.val.v @@ results
             ELSE results
        ELSE [results EXCEPT !.dns_records = dnsrecon_stdout(stdout)]

\* results of run_dnsrecon_scan before the exit-code test
dnsrecon_parse(file, stdout, scan_type, domain) ==
    dnsrecon_merge(JsonLoads(file.text), file, stdout, scan_type, domain)

\* what run_dnsrecon_scan has in hand after the exit-code test: the dictionary,
\* and whether it returns at once, before the output file is removed
dnsrecon_classify(results, rc, stderr) ==
    LET error_message == ExitMessage("DNSRecon", rc, stderr)
    IN  IF rc # 0 /\ results.dns_records = <<>>
        THEN [early |-> TRUE, value |-> [error |-> error_message]]
        ELSE IF rc # 0
        THEN [early |-> FALSE, value |-> ("warning" :> error_message) @@ results]
        ELSE [early |-> FALSE, value |-> results]

(***************************************************************************)
(* nmap_tool.py.  ET.fromstring is computed for documents of elements      *)
(* without attributes: <tag>, </tag>, <tag/> and character data.  A parsed *)
(* element is [tag, kids]; err is the parser's diagnostic on a ParseError. *)
(***************************************************************************)
XFail(msg) == [ok |-> FALSE, node |-> [tag |-> "", kids |-> <<>>], rest |-> "", err |-> msg]

XDone(tag, kids, rest) ==
    [ok |-> TRUE, node |-> [tag |-> tag, kids |-> kids], rest |-> rest, err |-> ""]

RECURSIVE XElement(_)
RECURSIVE XChildren(_, _, _)
\* the element at the head of s
XElement(s) ==
    LET close == FindFirst(s, ">")
    IN  IF s = "" THEN XFail("no element found")
        ELSE IF ~StartsWith(s, "<") THEN XFail("syntax error")
        ELSE IF StartsWith(s, "</") \/ close = 0 \/ close = 2
        THEN XFail("not well-formed (invalid token)")
        ELSE IF CharAt(s, close - 1) = "/"
        THEN XDone(SubSeq(s, 2, close - 2), <<>>, Drop(s, close))
        ELSE XChildren(SubSeq(s, 2, close - 1), Drop(s, close), <<>>)

\* the content of the open element tag, up to and including its end tag
XChildren(tag, s, kids) ==
    LET open == FindFirst(s, "<")
    IN  IF open = 0 THEN XFail("no element found")
        ELSE IF open > 1 THEN XChildren(tag, Drop(s, open - 1), kids)
        ELSE IF StartsWith(s, "</")
        THEN IF StartsWith(s, "</" \o tag \o ">")
             THEN XDone(tag, kids, Drop(s, Len(tag) + 3))
             ELSE XFail("mismatched tag")
        ELSE LET kid == XElement(s)
             IN  IF ~kid.ok THEN kid
                 ELSE XChildren(tag, kid.rest, Append(kids, kid.node))

\* ET.fromstring(text)
XmlFromString(text) ==
    LET r == XElement(Strip(text))
    IN  IF r.ok /\ r.rest # "" THEN XFail("junk after document element") ELSE r

\* node.findall(tag): the direct children with that tag
XFindAll(node, tag) ==
    LET at == [k \in 1..Len(node.kids) |->
                  IF node.kids[k].tag = tag THEN <<node.kids[k]>> ELSE <<>>]
    IN  Flatten(at)

EmptyDict == [k \in {} |-> ""]

\* host_info of one host element; an attribute that is absent reads as None
NmapHost(host_node) ==
    LET names == XFindAll(host_node, "hostnames")
        ports == XFindAll(host_node, "ports")
    IN  [status    |-> IF XFindAll(host_node, "status") # <<>> THEN PyNone ELSE "unknown",
         addresses |-> [k \in 1..Len(XFindAll(host_node, "address")) |->
                           [addr |-> PyNone, addrtype |-> PyNone]],
         hostnames |-> IF names = <<>> THEN <<>>
                       ELSE [k \in 1..Len(XFindAll(names[1], "hostname")) |->
                                [name |-> PyNone, type |-> PyNone]],
         ports     |-> IF ports = <<>> THEN <<>>
                       ELSE [k \in 1..Len(XFindAll(ports[1], "port")) |->
                                LET st == XFindAll(XFindAll(ports[1], "port")[k], "state")
                                IN  [protocol |-> PyNone,
                                     portid   |-> PyNone,
                                     state    |-> IF st # <<>> THEN PyNone ELSE "unknown",
                                     reason   |-> IF st # <<>> THEN PyNone ELSE "unknown"]]]

\* parse_nmap_xml_output(xml_output)
parse_nmap_xml_output(xml_output) ==
    LET doc   == XmlFromString(xml_output)
        hosts == XFindAll(doc.node, "host")
        scan  == [hosts |-> [k \in 1..Len(hosts) |-> NmapHost(hosts[k])]]
    IN  IF ~doc.ok
        THEN [error |-> "Failed to parse Nmap XML output", details |-> doc.err]
        ELSE IF XFindAll(doc.node, "runstats") # <<>>
        THEN ("runstats" :> EmptyDict) @@ scan
        ELSE scan

NmapOutputFlags == {"-oX", "-oA", "-oG", "-oS", "-oN"}

\* run_nmap_scan without its filter on the caller's options
NmapOptionsUnfiltered(options) == options

\* the options that survive the filter on output flags
NmapSafeOptions(options) ==
    Flatten([k \in 1..Len(options) |->
        IF \E f \in NmapOutputFlags : StartsWith(options[k], f) THEN <<>>
        ELSE <<options[k]>>])

\* the command list of run_nmap_scan
nmap_command(targets, options) ==
    <<"nmap">> \o NmapSafeOptions(options) \o targets \o <<"-oX", "-">>

\* a run_nmap_scan that gives up on every non-zero exit
nmap_classify_strict(parsed_output, stdout, stderr, rc) ==
    IF rc # 0 THEN [error |-> ExitMessage("Nmap", rc, stderr)]
    ELSE IF stdout = "" THEN [error |-> "Nmap produced no output."]
    ELSE parsed_output

\* the dictionary run_nmap_scan returns once the process has exited
nmap_classify(parsed_output, stdout, stderr, rc) ==
    LET error_message == ExitMessage("Nmap", rc, stderr)
    IN  IF rc # 0
        THEN IF stdout = "" THEN [error |-> error_message]
             ELSE IF "error" \notin DOMAIN parsed_output
             THEN ("warning" :> error_message) @@ parsed_output
             ELSE [parsed_output EXCEPT
                     !.details = @ \o "; Nmap execution: " \o error_message]
        ELSE IF stdout = "" THEN [error |-> "Nmap produced no output."]
        ELSE parsed_output

\* run_nmap_scan from the finished process to its return
nmap_result(stdout, stderr, rc) ==
    nmap_classify(parse_nmap_xml_output(stdout), stdout, stderr, rc)

(***************************************************************************)
(* nikto_tool.py                                                           *)
(***************************************************************************)
RECURSIVE StrToInt(_)
\* int(s) for a run of digits
StrToInt(s) ==
    IF s = "" THEN 0
    ELSE 10 * StrToInt(Take(s, Len(s) - 1))
            + (CHOOSE d \in 0..9 : IntToStr(d) = CharAt(s, Len(s)))

\* the end of the network location: the first of "/", "?" and "#", if any
NetlocLen(rest) ==
    LET stops == {k \in 1..Len(rest) : CharAt(rest, k) \in {"/", "?", "#"}}
    IN  IF stops = {} THEN Len(rest)
        ELSE (CHOOSE k \in stops : \A m \in stops : k <= m) - 1

MaxPort == 65535

\* urlparse(target_url) with the .hostname and .port the wrapper reads, for a
\* URL without user information; raised is the ValueError's text, if any
UrlParse(url) ==
    LET sep      == FindFirst(url, "://")
        scheme   == Lower(Take(url, sep - 1))
        rest     == Drop(url, sep + 2)
        netloc   == Take(rest, NetlocLen(rest))
        bracket  == StartsWith(netloc, "[")
        close    == FindFirst(netloc, "]")
        hostpart == IF bracket THEN SubSeq(netloc, 2, close - 1)
                    ELSE SplitOnce(netloc, ":")[1]
        after    == IF bracket THEN Drop(netloc, close) ELSE Drop(netloc, Len(hostpart))
        portstr  == IF StartsWith(after, ":") THEN Drop(after, 1) ELSE ""
        parsed   == [scheme   |-> scheme,
                     hostname |-> IF hostpart = "" THEN PyNone ELSE Lower(hostpart),
                     port     |-> IF IsDecimal(portstr) THEN StrToInt(portstr) ELSE 0,
                     raised   |-> ""]
    IN  IF Contains(netloc, "[") # Contains(netloc, "]")
        THEN [parsed EXCEPT !.raised = "Invalid IPv6 URL"]
        ELSE IF portstr # "" /\ ~IsDecimal(portstr)
        THEN [parsed EXCEPT !.raised = "Port could not be cast to integer value"]
        ELSE IF parsed.port > MaxPort
        THEN [parsed EXCEPT !.raised = "Port out of range 0-65535"]
        ELSE parsed

\* what run_nikto_scan does with parsed_url before it creates its temporary
\* file: an error dictionary, a ValueError out of urlparse, or the host and
\* port to scan
nikto_checks(target_url, parsed_url) ==
    LET port       == IF parsed_url.port # 0 THEN parsed_url.port
                      ELSE IF parsed_url.scheme = "https" THEN 443 ELSE 80
        none       == [raised |-> "", error |-> "", host |-> "", port |-> "", ssl |-> FALSE]
    IN  IF target_url = ""
        THEN [none EXCEPT !.error = "No target URL specified for Nikto scan."]
        ELSE IF ~(StartsWith(target_url, "http://") \/ StartsWith(target_url, "https://"))
        THEN [none EXCEPT !.error =
                "Invalid target URL format. Nikto requires protocol (http:// or https://)."]
        ELSE IF parsed_url.raised # "" THEN [none EXCEPT !.raised = parsed_url.raised]
        ELSE IF parsed_url.hostname = PyNone
        THEN [none EXCEPT !.error = "Could not parse hostname from target URL."]
        ELSE [none EXCEPT !.host = parsed_url.hostname,
                          !.port = IntToStr(port),
                          !.ssl  = parsed_url.scheme = "https"]

\* the checks applied to urlparse(target_url)
nikto_validate(target_url) == nikto_checks(target_url, UrlParse(target_url))

NiktoOutputFlags == {"-f", "-format", "-o", "-output"}

\* the options that survive the filter on format and output flags
NiktoSafeOptions(options) ==
    Flatten([k \in 1..Len(options) |->
        IF \E f \in NiktoOutputFlags : StartsWith(Lower(options[k]), f) THEN <<>>
        ELSE <<options[k]>>])

\* the command list of run_nikto_scan
nikto_command(valid, temp_output_filename, options) ==
    <<"nikto", "-h", valid.host, "-p", valid.port>>
        \o (IF valid.ssl THEN <<"-ssl">> ELSE <<>>)
        \o <<"-Format", "json", "-o", temp_output_filename>>
        \o NiktoSafeOptions(options)

\* what run_nikto_scan returns once the process has exited: kind "dict" with
\* the dictionary, or kind "value" when the decoded document is returned as is
nikto_classify(doc, file, temp_output_filename, stdout, stderr, rc) ==
    LET streams == [nikto_stderr     |-> IF stderr # "" THEN Strip(stderr) ELSE "",
                    nikto_stdout_raw |-> IF stdout # "" THEN Strip(stdout) ELSE ""]
        warning_message == ExitMessage("Nikto", rc, stderr)
        warned  == IF rc # 0
                   THEN ("warning_nikto_execution" :> warning_message) @@ doc.val.v
                   ELSE doc.val.v
    IN  IF ~file.exists
        THEN [kind  |-> "dict",
              value |-> ("error" :> ("Nikto output file " \o temp_output_filename
                                        \o " not found.")) @@ streams]
        ELSE IF ~doc.ok
        THEN [kind  |-> "dict",
              value |-> [error |-> "Failed to parse Nikto JSON output from "
                                      \o temp_output_filename \o ". Error: JSONDecodeError",
                         file_content_sample |-> file.text] @@ streams]
        ELSE IF doc.val.t # "obj"
        THEN IF rc # 0
             THEN [kind  |-> "dict",
                   value |-> [error |-> warning_message, parsed_output |-> doc.val]]
             ELSE [kind |-> "value", value |-> [value |-> doc.val]]
        ELSE [kind  |-> "dict",
              value |-> IF stdout # ""
                        THEN ("nikto_stdout_summary" :> Strip(stdout)) @@ warned
                        ELSE warned]

\* run_nikto_scan from the finished process to its return; doc is what
\* json.load makes of the temporary file
nikto_result(file, temp_output_filename, stdout, stderr, rc) ==
    nikto_classify(JsonLoads(file.text), file, temp_output_filename, stdout, stderr, rc)

(***************************************************************************)
(* enum4linux_tool.py                                                      *)
(***************************************************************************)
\* the command list of run_enum4linux_scan
enum4linux_command(target, options) == <<"enum4linux">> \o options \o <<target>>

\* text.split(key)[-1].strip()
AfterLast(text, key) ==
    LET pieces == SplitSep(text, key) IN Strip(pieces[Len(pieces)])

\* the section a line opens, or the one already open
Enum4Section(line, current_section) ==
    IF Contains(line, "Getting the global users list") THEN "users"
    ELSE IF Contains(line, "Getting the group list") THEN "groups"
    ELSE IF Contains(line, "Getting the available shares") THEN "shares"
    ELSE IF Contains(line, "Getting the password policy") THEN "policies"
    ELSE IF Contains(line, "Getting the printer list") THEN "printers"
    ELSE current_section

\* the stripped, non-empty fields of a tab-separated line
TabFields(line) ==
    LET raw == SplitSep(line, "\t")
    IN  Flatten([k \in 1..Len(raw) |->
            IF Strip(raw[k]) # "" THEN <<Strip(raw[k])>> ELSE <<>>])

\* one turn of the loop over the lines of stdout.  os_info without keys
\* stands for None
Enum4Line(st, raw) ==
    LET line    == Strip(raw)
        r       == st.results
        wg      == IF Contains(line, "Domain Name:") THEN AfterLast(line, "Domain Name:")
                   ELSE IF Contains(line, "Workgroup:")
                           /\ r.workgroup_domain \in {PyNone, ""}
                   THEN AfterLast(line, "Workgroup:")
                   ELSE r.workgroup_domain
        os      == IF Contains(line, "OS name:")
                   THEN ("name" :> AfterLast(line, "OS name:")) @@ r.os_info
                   ELSE IF Contains(line, "OS version:")
                   THEN ("version" :> AfterLast(line, "OS version:")) @@ r.os_info
                   ELSE r.os_info
        section == Enum4Section(line, st.current_section)
        user    == Strip(Replace(line, "user:", ""))
        group   == Strip(Replace(line, "group:", ""))
        parts   == TabFields(line)
    IN  [current_section |-> section,
         results |-> [r EXCEPT
            !.workgroup_domain = wg,
            !.os_info = os,
            !.users  = IF section = "users" /\ StartsWith(line, "user:") /\ user # ""
                       THEN Append(@, user) ELSE @,
            !.groups = IF section = "groups" /\ StartsWith(line, "group:") /\ group # ""
                       THEN Append(@, group) ELSE @,
            !.shares = IF /\ section = "shares"
                          /\ Contains(line, "\t")
                          /\ ~StartsWith(line, "index")
                          /\ Len(parts) >= 2
                       THEN Append(@, [name    |-> parts[1],
                                       type    |-> parts[2],
                                       comment |-> IF Len(parts) > 2 THEN parts[3] ELSE ""])
                       ELSE @]]

RECURSIVE Enum4Lines(_, _)
Enum4Lines(lines, st) ==
    IF lines = <<>> THEN st ELSE Enum4Lines(Tail(lines), Enum4Line(st, Head(lines)))

\* results after the loop over process.stdout
enum4linux_parse(target, stdout) ==
    LET results == [target |-> target, workgroup_domain |-> PyNone, os_info |-> EmptyDict,
                    users |-> <<>>, groups |-> <<>>, shares |-> <<>>,
                    policies |-> <<>>, printers |-> <<>>, raw_output |-> stdout]
        start   == [current_section |-> PyNone, results |-> results]
    IN  IF stdout = "" THEN results
        ELSE Enum4Lines(SplitSep(stdout, "\n"), start).results

\* the dictionary run_enum4linux_scan returns once the process has exited
enum4linux_classify(results, stderr, rc) ==
    LET error_message == ExitMessage("Enum4linux", rc, stderr)
    IN  IF rc # 0 /\ results.users = <<>> /\ results.groups = <<>> /\ results.shares = <<>>
        THEN [error |-> error_message]
        ELSE IF rc # 0 THEN ("warning" :> error_message) @@ results
        ELSE results

\* run_enum4linux_scan from the finished process to its return
enum4linux_result(target, stdout, stderr, rc) ==
    enum4linux_classify(enum4linux_parse(target, stdout), stderr, rc)

\* the dictionary of the except subprocess.TimeoutExpired clause
enum4linux_timeout == [error |-> "Enum4linux scan timed out after 5 minutes."]

(***************************************************************************)
(* hashcat_tool.py                                                         *)
(***************************************************************************)
Potfile == "hashcat.potfile"

HashcatDefaults == <<"--potfile-disable", "--quiet", "--status", "--status-timer=30">>

RECURSIVE AppendMissing(_, _)
\* for opt in default_options: if opt not in command: command.append(opt)
AppendMissing(command, defaults) ==
    IF defaults = <<>> THEN command
    ELSE AppendMissing(IF InSeq(Head(defaults), command) THEN command
                       ELSE Append(command, Head(defaults)),
                       Tail(defaults))

\* the command list of run_hashcat_crack
hashcat_command(hash_file, wordlist, hash_type, options) ==
    AppendMissing(<<"hashcat", "-m", hash_type, "-a", "0", hash_file, wordlist>> \o options,
                  HashcatDefaults)

\* run_hashcat_crack without its two checks on the input files
hashcat_validate_skipped(hash_file, wordlist, existing) == ""

\* the error of the two checks on the input files, or "" when both pass
hashcat_validate(hash_file, wordlist, existing) ==
    IF hash_file = "" \/ hash_file \notin existing
    THEN "Hash file not found: " \o hash_file
    ELSE IF wordlist = "" \/ wordlist \notin existing
    THEN "Wordlist file not found: " \o wordlist
    ELSE ""

\* the "hash:password" pair of a line, as a list of none or one
HashPair(line) ==
    IF Contains(line, ":")
    THEN <<[hash |-> SplitOnce(line, ":")[1], password |-> SplitOnce(line, ":")[2]]>>
    ELSE <<>>

\* cracked_hashes after the loop over process.stdout
hashcat_stdout(stdout) ==
    IF stdout = "" THEN <<>>
    ELSE LET lines == SplitSep(stdout, "\n")
         IN  Flatten([k \in 1..Len(lines) |->
                 IF ~StartsWith(Strip(lines[k]), "[") /\ ~StartsWith(Strip(lines[k]), "Session")
                 THEN HashPair(Strip(lines[k]))
                 ELSE <<>>])

RECURSIVE HashcatPotLines(_, _)
\* cracked_hashes after the loop over the lines of a potfile
HashcatPotLines(lines, cracked) ==
    IF lines = <<>> THEN cracked
    ELSE LET pair == HashPair(Strip(Head(lines)))
             new  == IF pair # <<>>
                        /\ ~\E k \in 1..Len(cracked) : cracked[k].hash = pair[1].hash
                     THEN pair
                     ELSE <<>>
         IN  HashcatPotLines(Tail(lines), cracked \o new)

\* cracked_hashes once stdout and the potfile of the working directory are read
hashcat_parse(stdout, potfile) ==
    IF potfile.exists
    THEN HashcatPotLines(SplitSep(potfile.text, "\n"), hashcat_stdout(stdout))
    ELSE hashcat_stdout(stdout)

\* run_hashcat_crack if it treated exit code 1 like any other non-zero code
hashcat_result_uniform(hash_file, wordlist, hash_type, cracked, stderr, rc) ==
    LET results == [hash_type |-> hash_type, hash_file |-> hash_file,
                    wordlist |-> wordlist, cracked_hashes |-> cracked,
                    status |-> "completed"]
        error_message == ExitMessage("Hashcat", rc, stderr)
    IN  IF rc # 0 /\ cracked = <<>> THEN [error |-> error_message]
        ELSE IF rc # 0 THEN ("warning" :> error_message) @@ results
        ELSE results

\* the dictionary run_hashcat_crack returns once the process has exited
hashcat_result(hash_file, wordlist, hash_type, cracked, stderr, rc) ==
    LET results == [hash_type |-> hash_type, hash_file |-> hash_file,
                    wordlist |-> wordlist, cracked_hashes |-> cracked,
                    status |-> IF rc = 1 THEN "exhausted" ELSE "completed"]
        error_message == ExitMessage("Hashcat", rc, stderr)
    IN  IF rc \notin {0, 1} /\ cracked = <<>> THEN [error |-> error_message]
        ELSE IF rc \notin {0, 1} THEN ("warning" :> error_message) @@ results
        ELSE results

\* the dictionary of the except subprocess.TimeoutExpired clause
hashcat_timeout == [error |-> "Hashcat process timed out after 10 minutes."]

(***************************************************************************)
(* linpeas_tool.py                                                         *)
(***************************************************************************)
\* the dictionary run_linpeas returns once the script has exited; the raw
\* output is saved first when output_file_path is given
linpeas_result(stdout, stderr, rc, output_file_path) ==
    LET result  == IF output_file_path # PyNone
                   THEN [status |-> "success", raw_output |-> stdout,
                         output_saved_to |-> output_file_path]
                   ELSE [status |-> "success", raw_output |-> stdout]
        warning == "LinPEAS process exited with code " \o IntToStr(rc) \o "."
                      \o (IF stderr # "" THEN " Stderr: " \o Strip(stderr) ELSE "")
    IN  IF rc # 0 THEN ("warning_linpeas_execution" :> warning) @@ result
        ELSE IF stderr # "" THEN ("stderr_info" :> Strip(stderr)) @@ result
        ELSE result

\* the dictionary of the check that the script exists and is executable
linpeas_missing(script_path) ==
    [status |-> "error",
     error_message |-> "LinPEAS script not found at " \o script_path
                          \o " or not executable."]

(***************************************************************************)
(* bug_bounty_platforms.py: the HackerOne and Bugcrowd functions.          *)
(***************************************************************************)
HackerOneFunctions == {"hackerone_get_programs", "hackerone_get_program_details",
                       "hackerone_create_report", "hackerone_get_report_status"}

BugcrowdFunctions == {"bugcrowd_get_programs", "bugcrowd_get_program_details",
                      "bugcrowd_create_submission", "bugcrowd_get_submission_status"}

RestFunctions == HackerOneFunctions \cup BugcrowdFunctions

\* the string returned when os.getenv finds no credentials
rest_missing_credentials(fn) ==
    IF fn \in HackerOneFunctions
    THEN "Error: Missing HackerOne API credentials. Set HACKERONE_API_TOKEN and HACKERONE_USERNAME environment variables."
    ELSE "Error: Missing Bugcrowd API token. Set BUGCROWD_API_TOKEN environment variable."

\* int(severity) raises ValueError: severity passed isdigit() but holds a
\* digit character that is no decimal digit
bugcrowd_int_raises(severity) == IsDigit(severity) /\ ~IsDecimal(severity)

\* the string of the two checks on severity, or "" when both pass; severity
\* is one that int() converts whenever isdigit() let it through
bugcrowd_severity(severity) ==
    IF ~IsDigit(severity)
    THEN "Error: Severity must be a valid integer between 1 and 5."
    ELSE IF StrToInt(severity) < 1 \/ StrToInt(severity) > 5
    THEN "Error: Severity must be between 1 and 5, where 5 is critical."
    ELSE ""

\* the request a function issues: method, URL and, for a submission, the
\* severity placed in the body
rest_request(fn, id, severity) ==
    CASE fn = "hackerone_get_programs" ->
            [method |-> "GET", url |-> "https://api.hackerone.com/v1/hackers/programs",
             severity |-> PyNone]
      [] fn = "hackerone_get_program_details" ->
            [method |-> "GET",
             url |-> "https://api.hackerone.com/v1/hackers/programs/" \o id,
             severity |-> PyNone]
      [] fn = "hackerone_create_report" ->
            [method |-> "POST", url |-> "https://api.hackerone.com/v1/hackers/reports",
             severity |-> severity]
      [] fn = "hackerone_get_report_status" ->
            [method |-> "GET",
             url |-> "https://api.hackerone.com/v1/hackers/reports/" \o id,
             severity |-> PyNone]
      [] fn = "bugcrowd_get_programs" ->
            [method |-> "GET", url |-> "https://api.bugcrowd.com/programs",
             severity |-> PyNone]
      [] fn = "bugcrowd_get_program_details" ->
            [method |-> "GET", url |-> "https://api.bugcrowd.com/programs/" \o id,
             severity |-> PyNone]
      [] fn = "bugcrowd_create_submission" ->
            [method |-> "POST",
             url |-> "https://api.bugcrowd.com/programs/" \o id \o "/submissions",
             severity |-> StrToInt(severity)]
      [] OTHER ->
            [method |-> "GET",
             url |-> "https://api.bugcrowd.com/programs/" \o id \o "/submissions/" \o id,
             severity |-> PyNone]

\* json.dumps(value, indent=2) of a decoded body without members
json_dumps(val) ==
    CASE val.t = "obj" /\ DOMAIN val.v = {} -> "{}"
      [] val.t = "arr" /\ val.v = <<>> -> "[]"
      [] val.t = "str" -> "\"" \o val.v \o "\""
      [] OTHER -> val.v

\* the string built from a response: the re-serialised body on the accepted
\* status codes, "Error: <status> - <body>" otherwise; a body that does not
\* decode raises inside the try block
rest_response(fn, status, body) ==
    LET accepted == IF fn \in {"hackerone_create_report", "bugcrowd_create_submission"}
                    THEN {200, 201} ELSE {200}
    IN  IF status \in accepted
        THEN IF JsonLoads(body).ok THEN json_dumps(JsonLoads(body).val)
             ELSE "Error: Expecting value: line 1 column 1 (char 0)"
        ELSE "Error: " \o IntToStr(status) \o " - " \o body

(***************************************************************************)
(* The inputs the model draws from.  A call is [tool, target, options,     *)
(* aux, aux2]: aux is the wordlist, the scan type or (hashcat) the hash    *)
(* file being the target, its wordlist; aux2 is run_linpeas's              *)
(* output_file_path.  For a HackerOne or Bugcrowd function options are the *)
(* attachments, aux the severity and aux2 the credentials in the           *)
(* environment.                                                            *)
(***************************************************************************)
\* most lines of a tool's stdout
MaxLines == 2

\* most calls in a run
MaxCalls == 2

InvIds == {1, 2}

Wrappers == {"gobuster_dir", "gobuster_dns", "feroxbuster", "dnsrecon", "nuclei",
             "nmap", "nikto", "enum4linux", "hashcat", "linpeas"}

DefaultWordlist == "/usr/share/wordlists/dirb/common.txt"

LinpeasOut == "/tmp/linpeas_output.txt"

\* the files os.path.exists finds among those a call may name
ExistingInputs == {"/hashes.txt", "/rockyou.txt", "/linpeas.sh", "/poc.png"}

CallOf(tool, target, options, aux, aux2) ==
    [tool |-> tool, target |-> target, options |-> options, aux |-> aux, aux2 |-> aux2]

\* the call of run_dnsrecon_scan that dnsrecon_reverse_lookup(ip_range) makes
dnsrecon_reverse_lookup(ip_range) ==
    CallOf("dnsrecon", "", <<"-r", ip_range>>, "rvl", PyNone)

CallsOf(tool) ==
    CASE tool = "gobuster_dir" ->
            {CallOf(tool, t, o, DefaultWordlist, PyNone) :
                t \in {"", "http://t.io/"}, o \in {<<>>, <<"-o", "/tmp/mine.txt">>}}
      [] tool = "gobuster_dns" ->
            {CallOf(tool, t, <<>>, DefaultWordlist, PyNone) : t \in {"", "t.io"}}
      [] tool = "feroxbuster" ->
            {CallOf(tool, t, <<>>, DefaultWordlist, PyNone) : t \in {"", "http://t.io"}}
      [] tool = "dnsrecon" ->
            {CallOf(tool, t, o, "std", PyNone) :
                t \in {"", "t.io"}, o \in {<<>>, <<"--json", "/tmp/mine.json">>}}
            \cup {dnsrecon_reverse_lookup("10.0.0.0/30")}
      [] tool = "nuclei" ->
            {CallOf(tool, t, o, PyNone, PyNone) :
                t \in {<<>>, <<"http://t.io">>}, o \in {<<>>, <<"-JSONL", "-silent">>}}
      [] tool = "nmap" ->
            {CallOf(tool, t, o, PyNone, PyNone) :
                t \in {<<>>, <<"t.io">>},
                o \in {<<>>, <<"-sV", "-oN", "scan.txt">>, <<"-oX", "-sV">>}}
      [] tool = "nikto" ->
            {CallOf(tool, t, <<>>, PyNone, PyNone) :
                t \in {"", "t.io", "http://t.io", "https://t.io:8443/app", "http://",
                       "http://[::1", "http://t.io:99999"}}
            \cup {CallOf(tool, "http://t.io", <<"-Tuning", "x", "-output", "o.xml">>,
                         PyNone, PyNone)}
      [] tool = "enum4linux" ->
            {CallOf(tool, t, o, PyNone, PyNone) : t \in {"", "10.0.0.5"}, o \in {<<>>, <<"-U">>}}
      [] tool = "hashcat" ->
            {CallOf(tool, t, <<>>, w, PyNone) :
                t \in {"", "/hashes.txt", "/gone.txt"}, w \in {"/rockyou.txt", "/gone.txt"}}
      [] tool = "linpeas" ->
            {CallOf(tool, t, <<>>, PyNone, out) :
                t \in {"", "/linpeas.sh", "/gone.sh"}, out \in {PyNone, LinpeasOut}}
      [] tool \in {"hackerone_create_report", "bugcrowd_create_submission"} ->
            {CallOf(tool, "acme", a, sev, cred) :
                a \in {<<>>, <<"/poc.png">>, <<"/gone.png">>},
                sev \in {"3", "9", "high", "²"}, cred \in {PyNone, "token"}}
      [] OTHER ->
            {CallOf(tool, "acme", <<>>, PyNone, cred) : cred \in {PyNone, "token"}}

RECURSIVE JoinLines(_)
\* the text of a stream that holds these lines
JoinLines(lines) ==
    IF lines = <<>> THEN "" ELSE Head(lines) \o "\n" \o JoinLines(Tail(lines))

\* every stream of at most MaxLines of the given lines
StreamsOf(lines) ==
    {JoinLines(seq) : seq \in UNION {[1..n -> lines] : n \in 0..MaxLines}}

HitA == "/admin (Status: 200) [Size: 12]"

HitB == "/login (Status: 301) [Size: 0]"

FeroxHit == "{\"type\":\"response\",\"url\":\"http://t.io/a\",\"status\":200}"

DnsJson == "[{\"type\":\"A\",\"name\":\"a.t.io\",\"address\":\"10.0.0.1\"}]"

\* what a tool can print on stdout
Stdouts(tool) ==
    CASE tool = "gobuster_dir" ->
            StreamsOf({HitA, HitB, "=====", "[ERROR] connection refused"})
      [] tool = "gobuster_dns" ->
            StreamsOf({"Found: a.t.io", "Found: b.t.io", "[-] Unable to validate"})
      [] tool = "feroxbuster" ->
            StreamsOf({FeroxHit, "{\"type\":\"statistics\"}", "404",
                       "200 12 http://t.io/b", "ERROR"})
      [] tool = "dnsrecon" ->
            StreamsOf({"[*] std: Performing General Enumeration", "A a.t.io 10.0.0.1",
                       "oops"})
      [] tool = "nuclei" ->
            StreamsOf({"{\"template-id\":\"x\",\"host\":\"http://t.io\"}", "404",
                       "[INF] done"})
      [] tool = "nmap" ->
            {"", "<nmaprun><host><status/></host><runstats/></nmaprun>\n",
             "<nmaprun></nmaprun>", "<nmaprun><host>", "Failed to resolve\n"}
      [] tool = "nikto" -> {"", "+ 1 host(s) tested\n"}
      [] tool = "enum4linux" ->
            StreamsOf({"Workgroup: CORP", "Getting the global users list", "user: bob"})
      [] tool = "hashcat" ->
            StreamsOf({"ab12:hunter2", "Session..........: hashcat", "cd34:a:b"})
      [] OTHER -> {"", "uid=0(root)\n"}

\* the text a tool leaves in the file it was told to write; NoWrite when it
\* leaves none
NoWrite == "<no file>"

Artifacts(tool) ==
    CASE tool = "gobuster_dir" -> {NoWrite, "", HitA \o "\n", "/backup (Status: 200)\n"}
      [] tool = "dnsrecon" -> {NoWrite, "[]", DnsJson, "{\"info\":\"x\"}", "Traceback"}
      [] tool = "nikto" -> {NoWrite, "{\"host\":\"t.io\"}", "[{\"host\":\"t.io\"}]", "<html>"}
      [] OTHER -> {NoWrite}

ExitCodes == {0, 1, 137}

Stderrs == {"", "fatal: boom\n"}

(***************************************************************************)
(* State.  fs is the part of the filesystem the wrappers read; a file      *)
(* remembers the invocation whose tool or wrapper wrote it (0: an earlier  *)
(* invocation or another program).  Each invocation i has a position pc[i],*)
(* its call, its command list, the outcome of its process, what it         *)
(* returned (ret: the kind, result: the dictionary) and, in seen[i], the   *)
(* scratch or pot file as it found it when parsing.  absent[i] says that    *)
(* the binary the wrapper launches is not on PATH during invocation i.     *)
(***************************************************************************)
VARIABLES fs, pc, call, argv, proc, ret, result, seen, temp, calls, lost, absent

vars == <<fs, pc, call, argv, proc, ret, result, seen, temp, calls, lost, absent>>

NiktoTemps == {"/tmp/tmpa1.json", "/tmp/tmpb2.json"}

\* the file the editor functions are asked to change
EditPath == "/w/notes.txt"

\* backup_path = f"{path}.bak"
backup_path(path) == path \o ".bak"

Paths ==
    {GobusterScratch, DnsreconScratch, Potfile, LinpeasOut, EditPath, backup_path(EditPath)}
        \cup NiktoTemps

NoCall == CallOf("", "", <<>>, PyNone, PyNone)

NoProc == [kind |-> "none", rc |-> 0, stdout |-> "", stderr |-> ""]

\* the tools whose subprocess.run call passes timeout=
HasTimeout(tool) == tool \in {"enum4linux", "hashcat"}

\* the fixed path a wrapper opens after the process has exited, if it has one
ScratchOf(tool) ==
    CASE tool = "gobuster_dir" -> GobusterScratch
      [] tool = "dnsrecon" -> DnsreconScratch
      [] tool = "hashcat" -> Potfile
      [] OTHER -> ""

\* the value that follows the last of the given flags in a command list
FlagValue(command, flags) ==
    LET at == {k \in 1..(Len(command) - 1) : command[k] \in flags}
    IN  IF at = {} THEN ""
        ELSE command[(CHOOSE k \in at : \A m \in at : m <= k) + 1]

\* the path the tool itself writes, as its command line tells it
ArtifactPath(tool, command) ==
    CASE tool = "gobuster_dir" -> FlagValue(command, {"-o", "--output"})
      [] tool = "dnsrecon" -> FlagValue(command, {"-j", "--json"})
      [] tool = "nikto" -> FlagValue(command, {"-o", "-output"})
      [] OTHER -> ""

\* the verdict on the two checks of run_hashcat_crack
HashcatVerdict(message) ==
    IF message # "" THEN [kind |-> "error", value |-> [error |-> message]]
    ELSE [kind |-> "ok", value |-> EmptyDict]

\* the verdict on what run_nikto_scan made of its target; when the target
\* passes, the value holds the host, port and ssl of the command
NiktoVerdict(valid) ==
    IF valid.raised # "" THEN [kind |-> "raised", value |-> [raised |-> valid.raised]]
    ELSE IF valid.error # "" THEN [kind |-> "error", value |-> [error |-> valid.error]]
    ELSE [kind |-> "ok", value |-> valid]

\* the check on the required input that opens each wrapper: kind "ok", or
\* "error" with the dictionary returned, or "raised" with the exception
Validate(c) ==
    LET ok     == [kind |-> "ok", value |-> EmptyDict]
        err(m) == [kind |-> "error", value |-> [error |-> m]]
    IN  CASE c.tool = "gobuster_dir" ->
               IF c.target = ""
               THEN err("No target URL specified for gobuster directory scan.") ELSE ok
          [] c.tool = "gobuster_dns" ->
               IF c.target = ""
               THEN err("No domain specified for gobuster DNS enumeration.") ELSE ok
          [] c.tool = "feroxbuster" ->
               IF c.target = ""
               THEN err("No target URL specified for feroxbuster scan.") ELSE ok
          [] c.tool = "dnsrecon" ->
               IF c.target = "" THEN err("No domain specified for dnsrecon scan.") ELSE ok
          [] c.tool = "nuclei" ->
               IF c.target = <<>> THEN err("No target URLs specified for Nuclei scan.") ELSE ok
          [] c.tool = "nmap" ->
               IF c.target = <<>> THEN err("No targets specified for Nmap scan.") ELSE ok
          [] c.tool = "nikto" -> NiktoVerdict(nikto_validate(c.target))
          [] c.tool = "enum4linux" ->
               IF c.target = "" THEN err("No target specified for enum4linux scan.") ELSE ok
          [] c.tool = "hashcat" ->
               HashcatVerdict(hashcat_validate(c.target, c.aux, ExistingInputs))
          [] OTHER ->
               IF c.target \notin ExistingInputs
               THEN [kind |-> "error", value |-> linpeas_missing(c.target)] ELSE ok

\* the command list handed to subprocess.run; valid is what the check on the
\* input left for it
CommandOf(c, temp_output_filename, valid) ==
    CASE c.tool = "gobuster_dir" -> gobuster_dir_command(c.target, c.aux, c.options)
      [] c.tool = "gobuster_dns" -> gobuster_dns_command(c.target, c.aux, c.options)
      [] c.tool = "feroxbuster" -> feroxbuster_command(c.target, c.aux, c.options)
      [] c.tool = "dnsrecon" -> dnsrecon_command(c.target, c.aux, c.options)
      [] c.tool = "nuclei" -> nuclei_command(c.target, c.options)
      [] c.tool = "nmap" -> nmap_command(c.target, c.options)
      [] c.tool = "nikto" ->
            nikto_command(valid, temp_output_filename, c.options)
      [] c.tool = "enum4linux" -> enum4linux_command(c.target, c.options)
      [] c.tool = "hashcat" -> hashcat_command(c.target, c.aux, "0", c.options)
      [] OTHER -> <<c.target>> \o c.options

\* the dictionary a wrapper would return for a missing binary if the
\* FileNotFoundError fell through to its except Exception clause
NotFoundUnhandled(c) ==
    [error |-> "An unexpected error occurred while running " \o c.tool
                  \o ": [Errno 2] No such file or directory"]

\* the dictionary of each wrapper's except FileNotFoundError clause
NotFound(c) ==
    CASE c.tool \in {"gobuster_dir", "gobuster_dns"} ->
            [error |-> "Gobuster command not found. Please ensure gobuster is installed and in your system PATH."]
      [] c.tool = "feroxbuster" ->
            [error |-> "Feroxbuster command not found. Please ensure feroxbuster is installed and in your system PATH."]
      [] c.tool = "dnsrecon" ->
            [error |-> "DNSRecon command not found. Please ensure dnsrecon is installed and in your system PATH."]
      [] c.tool = "nuclei" ->
            [error |-> "Nuclei command not found. Please ensure Nuclei is installed and in your system PATH."]
      [] c.tool = "nmap" ->
            [error |-> "Nmap command not found. Please ensure Nmap is installed and in your system PATH."]
      [] c.tool = "nikto" ->
            [error |-> "Nikto command not found. Please ensure Nikto is installed and in your system PATH."]
      [] c.tool = "enum4linux" ->
            [error |-> "Enum4linux command not found. Please ensure enum4linux is installed and in your system PATH."]
      [] c.tool = "hashcat" ->
            [error |-> "Hashcat command not found. Please ensure hashcat is installed and in your system PATH."]
      [] OTHER ->
            [status |-> "error",
             error_message |-> "Script " \o c.target \o " not found. Ensure it's a valid path."]

\* what the platform can answer
HttpStatuses == {200, 201, 403}

HttpBodies == {"{}", "<html>"}

TypeOK ==
    /\ DOMAIN fs = Paths
    /\ \A i \in InvIds :
          pc[i] \in {"idle", "spawn", "hung", "parse", "cleanup", "request", "done"}
    /\ \A i \in InvIds : ret[i] \in {"pending", "dict", "value", "str", "none", "raised"}
    /\ calls \in Nat

Init ==
    /\ fs \in {[p \in Paths |-> IF p = Potfile THEN pot ELSE NoFile] :
                  pot \in {NoFile, FileOf("ef56:old\n", 0)}}
    /\ pc = [i \in InvIds |-> "idle"]
    /\ call = [i \in InvIds |-> NoCall]
    /\ argv = [i \in InvIds |-> <<>>]
    /\ proc = [i \in InvIds |-> NoProc]
    /\ ret = [i \in InvIds |-> "pending"]
    /\ result = [i \in InvIds |-> EmptyDict]
    /\ seen = [i \in InvIds |-> NoFile]
    /\ temp = [i \in InvIds |-> ""]
    /\ lost = [i \in InvIds |-> FALSE]
    /\ absent = [i \in InvIds |-> FALSE]
    /\ calls = 0

\* the function returns: kind says what the caller gets, value holds it
Finish(i, kind, value) ==
    /\ pc' = [pc EXCEPT ![i] = "done"]
    /\ ret' = [ret EXCEPT ![i] = kind]
    /\ result' = [result EXCEPT ![i] = value]

\* run_*(...) up to the call of subprocess.run: the check on the required
\* input, the command list and, for nikto, the temporary file
Prepare(i, c, v) ==
    /\ call' = [call EXCEPT ![i] = c]
    /\ calls' = calls + 1
    /\ IF v.kind # "ok"
       THEN /\ Finish(i, IF v.kind = "raised" THEN "raised" ELSE "dict", v.value)
            /\ UNCHANGED <<fs, argv, proc, seen, temp, lost>>
       ELSE /\ pc' = [pc EXCEPT ![i] = "spawn"]
            /\ IF c.tool = "nikto"
               THEN \E name \in NiktoTemps :
                       /\ ~fs[name].exists
                       /\ temp' = [temp EXCEPT ![i] = name]
                       /\ fs' = [fs EXCEPT ![name] = FileOf("", i)]
                       /\ argv' = [argv EXCEPT ![i] = CommandOf(c, name, v.value)]
               ELSE /\ argv' = [argv EXCEPT ![i] = CommandOf(c, "", v.value)]
                    /\ UNCHANGED <<fs, temp>>
            /\ UNCHANGED <<proc, ret, result, seen, lost>>

\* a wrapper is called: v is the verdict of its check on the input
CallWrapper(i, c) == Prepare(i, c, Validate(c))

\* a HackerOne or Bugcrowd function up to its HTTP request
CallRest(i, c) ==
    LET opens   == c.tool \in {"hackerone_create_report", "bugcrowd_create_submission"}
                      /\ c.options # <<>>
        missing == \E k \in 1..Len(c.options) : c.options[k] \notin ExistingInputs
        enoent  == "[Errno 2] No such file or directory: '" \o c.options[1] \o "'"
    IN  /\ call' = [call EXCEPT ![i] = c]
        /\ calls' = calls + 1
        /\ UNCHANGED <<fs, proc, seen, temp, lost>>
        /\ IF c.aux2 = PyNone
           THEN /\ Finish(i, "str", [text |-> rest_missing_credentials(c.tool)])
                /\ UNCHANGED argv
           ELSE IF c.tool = "bugcrowd_create_submission" /\ bugcrowd_int_raises(c.aux)
           THEN /\ Finish(i, "raised",
                          [raised |-> "ValueError: invalid literal for int() with base 10: '"
                                          \o c.aux \o "'"])
                /\ UNCHANGED argv
           ELSE IF c.tool = "bugcrowd_create_submission" /\ bugcrowd_severity(c.aux) # ""
           THEN /\ Finish(i, "str", [text |-> bugcrowd_severity(c.aux)])
                /\ UNCHANGED argv
           ELSE IF opens /\ missing
           THEN /\ IF c.tool = "bugcrowd_create_submission"
                   THEN Finish(i, "raised", [raised |-> "FileNotFoundError: " \o enoent])
                   ELSE Finish(i, "str", [text |-> "Error: " \o enoent])
                /\ UNCHANGED argv
           ELSE /\ pc' = [pc EXCEPT ![i] = "request"]
                /\ argv' = [argv EXCEPT ![i] = <<rest_request(c.tool, c.target, c.aux)>>]
                /\ UNCHANGED <<ret, result>>

\* a caller invokes one of the functions; a says whether the binary of the
\* wrapper is missing from PATH
Call(i, c, a) ==
    /\ pc[i] = "idle"
    /\ calls < MaxCalls
    /\ c.tool \in RestFunctions => ~a
    /\ absent' = [absent EXCEPT ![i] = a]
    /\ IF c.tool \in RestFunctions THEN CallRest(i, c) ELSE CallWrapper(i, c)

\* a finally clause that leaves the temporary file where it is
NiktoFinallySkipped(i, files) == files

\* os.remove(temp_output_filename) of run_nikto_scan's finally clause
NiktoFinally(i, files) ==
    IF call[i].tool = "nikto" /\ files[temp[i]].exists
    THEN [files EXCEPT ![temp[i]] = NoFile]
    ELSE files

\* subprocess.run raises FileNotFoundError: the binary is not on PATH
SpawnFails(i) ==
    /\ pc[i] = "spawn"
    /\ absent[i]
    /\ Finish(i, "dict", NotFound(call[i]))
    /\ fs' = NiktoFinally(i, fs)
    /\ UNCHANGED <<call, argv, proc, seen, temp, lost, calls, absent>>

\* the tool runs to its end: it leaves rc, stdout and stderr and, when it
\* writes one, the output file its command line names
ToolExits(i, rc, out, err, art) ==
    LET path == ArtifactPath(call[i].tool, argv[i])
    IN  /\ pc[i] = "spawn"
        /\ ~absent[i]
        /\ pc' = [pc EXCEPT ![i] = "parse"]
        /\ proc' = [proc EXCEPT ![i] =
                       [kind |-> "exit", rc |-> rc, stdout |-> out, stderr |-> err]]
        /\ fs' = IF art # NoWrite /\ path \in Paths
                 THEN [fs EXCEPT ![path] = FileOf(art, i)]
                 ELSE fs
        /\ UNCHANGED <<call, argv, ret, result, seen, temp, lost, calls, absent>>

\* the tool never exits; partial is what it has printed so far
ToolHangs(i, partial) ==
    /\ pc[i] = "spawn"
    /\ ~absent[i]
    /\ pc' = [pc EXCEPT ![i] = "hung"]
    /\ proc' = [proc EXCEPT ![i] =
                   [kind |-> "hung", rc |-> 0, stdout |-> partial, stderr |-> ""]]
    /\ UNCHANGED <<fs, call, argv, ret, result, seen, temp, lost, calls, absent>>

\* a wrapper that answered TimeoutExpired by launching the tool again
TimeoutRelaunches(i) ==
    /\ pc[i] = "hung"
    /\ HasTimeout(call[i].tool)
    /\ pc' = [pc EXCEPT ![i] = "spawn"]
    /\ UNCHANGED <<fs, call, argv, proc, ret, result, seen, temp, lost, calls, absent>>

\* subprocess.run(..., timeout=...) raises TimeoutExpired
TimeoutExpires(i) ==
    /\ pc[i] = "hung"
    /\ HasTimeout(call[i].tool)
    /\ Finish(i, "dict",
              IF call[i].tool = "enum4linux" THEN enum4linux_timeout ELSE hashcat_timeout)
    /\ UNCHANGED <<fs, call, argv, proc, seen, temp, lost, calls, absent>>

\* a dictionary returned by a wrapper that has no clean-up to skip
Dict(d) == [early |-> TRUE, kind |-> "dict", value |-> d]

\* what run_gobuster_dir and run_dnsrecon_scan hold after the exit-code test
Returned(kind, r) == [early |-> r.early, kind |-> kind, value |-> r.value]

\* what run_nikto_scan returns: a dictionary, or the decoded document
NiktoReturned(r) == [early |-> TRUE, kind |-> r.kind, value |-> r.value]

\* what the wrapper computes from the finished process and the file it opens:
\* early is TRUE when it returns before its clean-up
Outcome(c, p, file, temp_output_filename) ==
    CASE c.tool = "gobuster_dir" ->
            Returned("dict", gobuster_dir_classify(
                gobuster_dir_parse(p.stdout, file, c.target), p.rc, p.stderr))
      [] c.tool = "dnsrecon" ->
            Returned("dict", dnsrecon_classify(
                dnsrecon_parse(file, p.stdout, c.aux, c.target), p.rc, p.stderr))
      [] c.tool = "gobuster_dns" ->
            Dict(gobuster_dns_result(p.stdout, p.stderr, p.rc, c.target))
      [] c.tool = "feroxbuster" -> Dict(feroxbuster_result(p.stdout, p.stderr, p.rc))
      [] c.tool = "nuclei" -> Dict(nuclei_result(p.stdout, p.stderr, p.rc))
      [] c.tool = "nmap" -> Dict(nmap_result(p.stdout, p.stderr, p.rc))
      [] c.tool = "nikto" ->
            NiktoReturned(
                nikto_result(file, temp_output_filename, p.stdout, p.stderr, p.rc))
      [] c.tool = "enum4linux" ->
            Dict(enum4linux_result(c.target, p.stdout, p.stderr, p.rc))
      [] c.tool = "hashcat" ->
            Dict(hashcat_result(c.target, c.aux, "0",
                                hashcat_parse(p.stdout, file), p.stderr, p.rc))
      [] OTHER -> Dict(linpeas_result(p.stdout, p.stderr, p.rc, c.aux2))

\* the path the wrapper opens after the process has exited
ReadPath(i) == IF call[i].tool = "nikto" THEN temp[i] ELSE ScratchOf(call[i].tool)

\* the wrapper parses stdout and its file and builds the result; run_linpeas
\* saves the raw output, run_nikto_scan removes its temporary file
Build(i, c, file, o) ==
    /\ pc[i] = "parse"
    /\ seen' = [seen EXCEPT ![i] = file]
    /\ result' = [result EXCEPT ![i] = o.value]
    /\ ret' = [ret EXCEPT ![i] = IF o.early THEN o.kind ELSE "pending"]
    /\ pc' = [pc EXCEPT ![i] = IF o.early THEN "done" ELSE "cleanup"]
    /\ fs' = IF c.tool = "linpeas" /\ c.aux2 # PyNone
             THEN [fs EXCEPT ![c.aux2] = FileOf(proc[i].stdout, i)]
             ELSE NiktoFinally(i, fs)
    /\ UNCHANGED <<call, argv, proc, temp, lost, calls, absent>>

\* the file as the wrapper finds it when it opens ReadPath
FileRead(i) == IF ReadPath(i) = "" THEN NoFile ELSE fs[ReadPath(i)]

\* the wrapper goes from the finished process to its return or its clean-up
Parse(i) == Build(i, call[i], FileRead(i), Outcome(call[i], proc[i], FileRead(i), temp[i]))

\* subprocess.run(["rm", <scratch file>]) and the return that follows it
Cleanup(i) ==
    LET path == ScratchOf(call[i].tool)
    IN  /\ pc[i] = "cleanup"
        /\ fs' = [fs EXCEPT ![path] = NoFile]
        /\ lost' = [j \in InvIds |->
                       lost[j] \/ (j # i /\ fs[path].exists /\ fs[path].by = j
                                        /\ pc[j] = "parse" /\ ScratchOf(call[j].tool) = path)]
        /\ pc' = [pc EXCEPT ![i] = "done"]
        /\ ret' = [ret EXCEPT ![i] = "dict"]
        /\ UNCHANGED <<call, argv, proc, result, seen, temp, calls, absent>>

\* bugcrowd_create_submission called with attachments: its branch of the
\* if statement neither handles an exception nor returns
BareBranch(c) == c.tool = "bugcrowd_create_submission" /\ c.options # <<>>

\* the platform answers the request
HttpResponds(i, status, body) ==
    /\ pc[i] = "request"
    /\ proc' = [proc EXCEPT ![i] =
                   [kind |-> "http", rc |-> status, stdout |-> body, stderr |-> ""]]
    /\ IF BareBranch(call[i])
       THEN Finish(i, "none", EmptyDict)
       ELSE Finish(i, "str", [text |-> rest_response(call[i].tool, status, body)])
    /\ UNCHANGED <<fs, call, argv, seen, temp, lost, calls, absent>>

\* requests raises: the connection cannot be made
HttpFails(i) ==
    /\ pc[i] = "request"
    /\ IF BareBranch(call[i])
       THEN Finish(i, "raised", [raised |-> "ConnectionError: connection refused"])
       ELSE Finish(i, "str", [text |-> "Error: connection refused"])
    /\ UNCHANGED <<fs, call, argv, proc, seen, temp, lost, calls, absent>>

\* the caller has its answer; what the invocation left on disk stays there
Return(i) ==
    /\ pc[i] = "done"
    /\ pc' = [pc EXCEPT ![i] = "idle"]
    /\ call' = [call EXCEPT ![i] = NoCall]
    /\ argv' = [argv EXCEPT ![i] = <<>>]
    /\ proc' = [proc EXCEPT ![i] = NoProc]
    /\ ret' = [ret EXCEPT ![i] = "pending"]
    /\ result' = [result EXCEPT ![i] = EmptyDict]
    /\ seen' = [seen EXCEPT ![i] = NoFile]
    /\ temp' = [temp EXCEPT ![i] = ""]
    /\ lost' = [lost EXCEPT ![i] = FALSE]
    /\ absent' = [absent EXCEPT ![i] = FALSE]
    /\ fs' = [p \in Paths |-> IF fs[p].by = i THEN [fs[p] EXCEPT !.by = 0] ELSE fs[p]]
    /\ UNCHANGED calls

\* every function a caller can call
Functions == Wrappers \cup RestFunctions

\* what a tool that never exits has printed: only a wrapper with a timeout
\* gets to see it
Partials(tool) == IF HasTimeout(tool) THEN Stdouts(tool) ELSE {""}

\* one caller at a time: every function, called MaxCalls times in a row
Next ==
    \/ \E tool \in Functions, a \in BOOLEAN : \E c \in CallsOf(tool) : Call(1, c, a)
    \/ SpawnFails(1)
    \/ \E rc \in ExitCodes, out \in Stdouts(call[1].tool), err \in Stderrs,
          art \in Artifacts(call[1].tool) : ToolExits(1, rc, out, err, art)
    \/ \E partial \in Partials(call[1].tool) : ToolHangs(1, partial)
    \/ TimeoutExpires(1)
    \/ Parse(1)
    \/ Cleanup(1)
    \/ \E status \in HttpStatuses, body \in HttpBodies : HttpResponds(1, status, body)
    \/ HttpFails(1)
    \/ Return(1)

Spec == Init /\ [][Next]_vars

\* the calls of two callers that use the wrappers with a fixed scratch file
ConcCalls ==
    {CallOf("gobuster_dir", "http://t.io/", <<>>, DefaultWordlist, PyNone),
     CallOf("dnsrecon", "t.io", <<>>, "std", PyNone)}

ConcStdouts(tool) ==
    IF tool = "gobuster_dir" THEN {"", HitB \o "\n"} ELSE {"", "A b.t.io 10.0.0.2\n"}

ConcArtifacts(tool) ==
    IF tool = "gobuster_dir" THEN {NoWrite, HitA \o "\n"} ELSE {NoWrite, DnsJson}

\* two callers at once: their steps interleave
NextConc ==
    \E i \in InvIds :
        \/ \E c \in ConcCalls, a \in BOOLEAN : Call(i, c, a)
        \/ SpawnFails(i)
        \/ \E rc \in {0, 1}, out \in ConcStdouts(call[i].tool),
              art \in ConcArtifacts(call[i].tool) : ToolExits(i, rc, out, "", art)
        \/ Parse(i)
        \/ Cleanup(i)
        \/ Return(i)

SpecConc == Init /\ [][NextConc]_vars

\* the calls of two callers that scan one site with nikto at the same time
NiktoConcCalls ==
    {CallOf("nikto", "http://t.io", o, PyNone, PyNone) :
        o \in {<<>>, <<"-Tuning", "x", "-output", "o.xml">>}}

\* two callers of run_nikto_scan at once: their steps interleave
NextNikto ==
    \E i \in InvIds :
        \/ \E c \in NiktoConcCalls, a \in BOOLEAN : Call(i, c, a)
        \/ SpawnFails(i)
        \/ \E rc \in {0, 1}, out \in Stdouts("nikto"), art \in Artifacts("nikto") :
              ToolExits(i, rc, out, "", art)
        \/ Parse(i)
        \/ Return(i)

SpecNikto == Init /\ [][NextNikto]_vars

(***************************************************************************)
(* The text editor functions and the pillaging helpers: each runs to its   *)
(* end in one step and hands a string or a dictionary to its caller.       *)
(* seen[i] keeps the file as it was before the edit last made to it.       *)
(***************************************************************************)
\* most calls of the editor and pillaging functions in a run
MaxEdits == 4

\* file.readlines(): the lines of a text, each with its line end
RECURSIVE readlines(_)

readlines(content) ==
    LET at == FindFirst(content, "\n")
    IN  IF content = "" THEN <<>>
        ELSE IF at = 0 THEN <<content>>
        ELSE <<Take(content, at)>> \o readlines(Drop(content, at))

\* file.writelines(lines)
writelines(lines) == JoinWith(lines, "")

\* str(e) of the FileNotFoundError that open(path, 'r') raises
NoSuchFile(path) == "[Errno 2] No such file or directory: '" \o path \o "'"

\* an editor function returns: files is the disk it leaves, before the file
\* as it was before the edit last made and message the string returned
Edited(i, c, files, before, message) ==
    /\ pc[i] = "idle"
    /\ calls < MaxEdits
    /\ call' = [call EXCEPT ![i] = c]
    /\ calls' = calls + 1
    /\ fs' = files
    /\ seen' = [seen EXCEPT ![i] = before]
    /\ ret' = [ret EXCEPT ![i] = "str"]
    /\ result' = [result EXCEPT ![i] = [text |-> message]]
    /\ UNCHANGED <<pc, argv, proc, temp, lost, absent>>

\* str_replace(path, old_str, new_str) for a non-empty old_str
str_replace(i, path, old_str, new_str) ==
    LET c           == CallOf("str_replace", path, <<old_str, new_str>>, PyNone, PyNone)
        content     == fs[path].text
        new_content == Replace(content, old_str, new_str)
    IN  IF ~fs[path].exists
        THEN Edited(i, c, fs, seen[i],
                    "Error replacing text in " \o path \o ": " \o NoSuchFile(path))
        ELSE IF ~Contains(content, old_str)
        THEN Edited(i, c, fs, seen[i],
                    "Error: The string to replace was not found in " \o path)
        ELSE Edited(i, c, [fs EXCEPT ![path] = FileOf(new_content, i)], fs[path],
                    "Successfully replaced text in " \o path
                        \o "\n\nModified content:\n" \o new_content)

\* create(path, file_text)
create(i, path, file_text) ==
    Edited(i, CallOf("create", path, <<file_text>>, PyNone, PyNone),
           [fs EXCEPT ![path] = FileOf(file_text, i)], fs[path],
           "Successfully created file at " \o path \o "\n\nFile content:\n" \o file_text)

\* the lines of insert(...) after lines.insert(insert_line, new_str)
inserted(lines, insert_line, new_str) ==
    SubSeq(lines, 1, insert_line) \o <<new_str>> \o SubSeq(lines, insert_line + 1, Len(lines))

\* insert(path, insert_line, new_str) for insert_line >= 0: the backup is
\* written as soon as the file is read, before insert_line is looked at
insert(i, path, insert_line, new_str) ==
    LET c      == CallOf("insert", path, <<IntToStr(insert_line), new_str>>, PyNone, PyNone)
        lines  == readlines(fs[path].text)
        saved  == [fs EXCEPT ![backup_path(path)] = FileOf(writelines(lines), i)]
        after  == writelines(inserted(lines, insert_line, new_str))
    IN  IF ~fs[path].exists
        THEN Edited(i, c, fs, seen[i],
                    "Error inserting text in " \o path \o ": " \o NoSuchFile(path))
        ELSE IF insert_line # 0 /\ insert_line > Len(lines)
        THEN Edited(i, c, saved, seen[i],
                    "Error: Line " \o IntToStr(insert_line)
                        \o " exceeds file length of " \o IntToStr(Len(lines)))
        ELSE Edited(i, c, [saved EXCEPT ![path] = FileOf(after, i)], fs[path],
                    "Successfully inserted text at line " \o IntToStr(insert_line)
                        \o " in " \o path \o "\n\nModified content:\n" \o after)

\* undo_edit(path)
undo_edit(i, path) ==
    LET c       == CallOf("undo_edit", path, <<>>, PyNone, PyNone)
        content == fs[backup_path(path)].text
    IN  IF ~fs[backup_path(path)].exists
        THEN Edited(i, c, fs, seen[i], "Error: No backup file found for " \o path)
        ELSE Edited(i, c,
                    [fs EXCEPT ![path] = FileOf(content, i), ![backup_path(path)] = NoFile],
                    seen[i],
                    "Successfully undid the last edit to " \o path
                        \o "\n\nRestored content:\n" \o content)

\* extract_pii(text): the placeholder looks for nothing
extract_pii(text) == [emails |-> <<>>, phone_numbers |-> <<>>]

\* run_crackmapexec_and_parse(target, options): the placeholder starts no
\* process
run_crackmapexec_and_parse(target, options) ==
    [status |-> "not implemented", target |-> target]

\* a pillaging helper returns the dictionary d; a says whether the
\* crackmapexec binary is missing from PATH
Pillaged(i, c, a, d) ==
    /\ pc[i] = "idle"
    /\ calls < MaxEdits
    /\ call' = [call EXCEPT ![i] = c]
    /\ calls' = calls + 1
    /\ absent' = [absent EXCEPT ![i] = a]
    /\ ret' = [ret EXCEPT ![i] = "dict"]
    /\ result' = [result EXCEPT ![i] = d]
    /\ UNCHANGED <<fs, pc, argv, proc, seen, temp, lost>>

CallExtractPii(i, text) ==
    Pillaged(i, CallOf("extract_pii", text, <<>>, PyNone, PyNone), FALSE, extract_pii(text))

CallCrackmapexec(i, target, options, a) ==
    Pillaged(i, CallOf("crackmapexec", target, <<options>>, PyNone, PyNone), a,
             run_crackmapexec_and_parse(target, options))

\* what the callers below write, look for and insert
FileTexts == {"a\nb\n", "a"}

OldStrs == {"a", "z"}

InsertLines == {0, 1, 3}

PiiTexts ==
    {"Just some regular text without PII", "Contact us at support@example.com",
     "Call us at +1-555-123-4567", "Website: https://example.com"}

CmeTargets == {"", "127.0.0.1"}

\* one caller of the editor and the pillaging helpers, MaxEdits calls in a row
NextLocal ==
    \/ \E file_text \in FileTexts : create(1, EditPath, file_text)
    \/ \E old_str \in OldStrs : str_replace(1, EditPath, old_str, "c")
    \/ \E insert_line \in InsertLines : insert(1, EditPath, insert_line, "x\n")
    \/ undo_edit(1, EditPath)
    \/ \E text \in PiiTexts : CallExtractPii(1, text)
    \/ \E target \in CmeTargets, options \in {"", "--timeout 5"}, a \in BOOLEAN :
          CallCrackmapexec(1, target, options, a)

SpecLocal == Init /\ [][NextLocal]_vars

(***************************************************************************)
(* What the properties below speak of.                                     *)
(***************************************************************************)
\* the wrapper with invocation i has returned after its tool ran to its end
Exited(i) == pc[i] = "done" /\ proc[i].kind = "exit"

\* the records the wrapper of invocation i parsed from what its tool printed
\* and from the file it read: for nikto the decoded document, for linpeas the
\* raw output
Parsed(i) ==
    LET c == call[i]
        p == proc[i]
    IN  CASE c.tool = "gobuster_dir" -> gobuster_dir_parse(p.stdout, seen[i], c.target)
          [] c.tool = "gobuster_dns" -> gobuster_dns_parse(p.stdout, c.target)
          [] c.tool = "feroxbuster" -> feroxbuster_parse(p.stdout).recs
          [] c.tool = "dnsrecon" ->
                dnsrecon_parse(seen[i], p.stdout, c.aux, c.target).dns_records
          [] c.tool = "nuclei" -> nuclei_parse(p.stdout)
          [] c.tool = "nmap" ->
                IF p.stdout # "" /\ "hosts" \in DOMAIN parse_nmap_xml_output(p.stdout)
                THEN parse_nmap_xml_output(p.stdout).hosts ELSE <<>>
          [] c.tool = "nikto" ->
                IF seen[i].exists /\ JsonLoads(seen[i].text).ok
                THEN <<JsonLoads(seen[i].text).val>> ELSE <<>>
          [] c.tool = "enum4linux" ->
                enum4linux_parse(c.target, p.stdout).users
                    \o enum4linux_parse(c.target, p.stdout).groups
                    \o enum4linux_parse(c.target, p.stdout).shares
          [] c.tool = "hashcat" -> hashcat_parse(p.stdout, seen[i])
          [] OTHER -> IF p.stdout # "" THEN <<p.stdout>> ELSE <<>>

\* the key under which a wrapper's dictionary lists its records
RecordKey(tool) ==
    CASE tool = "gobuster_dir" -> "discovered_paths"
      [] tool = "gobuster_dns" -> "discovered_subdomains"
      [] tool = "feroxbuster" -> "discovered_content"
      [] tool = "dnsrecon" -> "dns_records"
      [] tool = "nuclei" -> "findings"
      [] tool = "nmap" -> "hosts"
      [] tool = "hashcat" -> "cracked_hashes"
      [] tool = "linpeas" -> "raw_output"
      [] OTHER -> ""

\* the result of invocation i contains every record it parsed
KeepsRecords(i) ==
    LET tool == call[i].tool
        d    == result[i]
    IN  CASE tool = "nikto" ->
               \/ ret[i] = "value" /\ <<d.value>> = Parsed(i)
               \/ ret[i] = "dict" /\ \A k \in DOMAIN Parsed(i)[1].v :
                                        k \in DOMAIN d /\ d[k] = Parsed(i)[1].v[k]
          [] tool = "enum4linux" ->
               /\ {"users", "groups", "shares"} \subseteq DOMAIN d
               /\ d.users \o d.groups \o d.shares = Parsed(i)
          [] tool = "linpeas" -> "raw_output" \in DOMAIN d /\ <<d.raw_output>> = Parsed(i)
          [] OTHER -> RecordKey(tool) \in DOMAIN d /\ d[RecordKey(tool)] = Parsed(i)

\* the result of invocation i lists no records
NoRecords(i) ==
    \A k \in DOMAIN result[i] :
        k \notin {RecordKey(call[i].tool), "parsed_output", "users", "groups", "shares"}

\* the keys of a result that hold a warning
WarningKeys(d) == {k \in DOMAIN d : Contains(k, "warning")}

\* the wrappers whose decision on the exit code the first two properties cover
LineTools == {"gobuster_dir", "gobuster_dns", "feroxbuster", "dnsrecon", "nuclei"}

\* C1: a non-zero exit with at least one parsed record gives a partial
\* result: every parsed record, a non-empty warning that includes the exit
\* code, and no error key.
C1_NonZeroExitWithRecordsIsPartial ==
    \A i \in InvIds :
        (Exited(i) /\ call[i].tool \in LineTools /\ proc[i].rc # 0 /\ Parsed(i) # <<>>)
        => /\ ret[i] = "dict"
           /\ "error" \notin DOMAIN result[i]
           /\ "warning" \in DOMAIN result[i]
           /\ result[i].warning # ""
           /\ Contains(result[i].warning, IntToStr(proc[i].rc))
           /\ KeepsRecords(i)

\* C2: a non-zero exit with no parsed record gives an error whose message
\* includes the exit code and the stderr text, if any; the result lists no
\* records and has no warning.
C2_NonZeroExitWithoutRecordsIsError ==
    \A i \in InvIds :
        (Exited(i) /\ call[i].tool \in LineTools /\ proc[i].rc # 0 /\ Parsed(i) = <<>>)
        => /\ ret[i] = "dict"
           /\ "error" \in DOMAIN result[i]
           /\ Contains(result[i].error, IntToStr(proc[i].rc))
           /\ proc[i].stderr # "" => Contains(result[i].error, Strip(proc[i].stderr))
           /\ NoRecords(i)
           /\ WarningKeys(result[i]) = {}

\* C3: exit code 0 with at least one parsed record gives a success: the
\* parsed records, no error key and no warning key, whatever stderr holds.
C3_ZeroExitWithRecordsIsSuccess ==
    \A i \in InvIds :
        (Exited(i) /\ call[i].tool \in Wrappers /\ proc[i].rc = 0 /\ Parsed(i) # <<>>)
        => /\ ret[i] \in {"dict", "value"}
           /\ "error" \notin DOMAIN result[i]
           /\ WarningKeys(result[i]) = {}
           /\ KeepsRecords(i)

\* the text of the error a result reports: run_linpeas uses error_message
ErrorText(d) ==
    IF "error" \in DOMAIN d THEN d.error
    ELSE IF "error_message" \in DOMAIN d THEN d.error_message
    ELSE ""

\* the name by which a message can point at the tool a call launches
BinaryOf(c) ==
    CASE c.tool \in {"gobuster_dir", "gobuster_dns"} -> "gobuster"
      [] c.tool = "linpeas" -> Lower(c.target)
      [] OTHER -> c.tool

\* the result of invocation i is an error that says the tool was not found
IdentifiesMissingTool(i) ==
    /\ ret[i] = "dict"
    /\ Contains(Lower(ErrorText(result[i])), "not found")
    /\ Contains(Lower(ErrorText(result[i])), BinaryOf(call[i]))

\* C4, as the claim states it: with the binary missing from PATH every
\* wrapper returns an error that identifies the missing tool, whatever the
\* target, the options and the other inputs of the call.
C4_AbsentBinaryAlwaysReported ==
    \A i \in InvIds :
        (pc[i] = "done" /\ call[i].tool \in Wrappers /\ absent[i])
        => IdentifiesMissingTool(i)

\* C4, amended: with the binary missing from PATH, a call whose required
\* inputs pass the wrapper's own check returns an error that identifies the
\* missing tool, whatever its options; the tool is never reported as run.
C4_AbsentBinaryReportedForValidInput ==
    \A i \in InvIds :
        (pc[i] = "done" /\ call[i].tool \in Wrappers /\ absent[i]
            /\ Validate(call[i]).kind = "ok")
        => IdentifiesMissingTool(i) /\ proc[i].kind = "none"

\* a wrapper given valid input and options has reported its missing binary
C4_Witness ==
    \E i \in InvIds :
        /\ pc[i] = "done" /\ absent[i]
        /\ call[i].tool = "nikto" /\ call[i].options # <<>>
        /\ Validate(call[i]).kind = "ok"
        /\ result[i] = NotFound(call[i])

\* the result of invocation i is an error: it has an error key, or a status
\* that says so
IsError(i) ==
    \/ "error" \in DOMAIN result[i]
    \/ "status" \in DOMAIN result[i] /\ result[i].status = "error"

\* C5: every result of a wrapper has an error key iff it is an error, an
\* error result lists no records, and no error result follows an exit with
\* code 0 of a tool that was given its required inputs.
C5_ScanResultInvariant ==
    \A i \in InvIds :
        (pc[i] = "done" /\ call[i].tool \in Wrappers /\ ret[i] \in {"dict", "value"})
        => /\ IsError(i) <=> "error" \in DOMAIN result[i]
           /\ IsError(i) => NoRecords(i)
           /\ IsError(i) => ~(proc[i].kind = "exit" /\ proc[i].rc = 0)

\* C6: of two concurrent invocations, neither reads scratch content written
\* by the other's tool process, and neither loses its scratch file to the
\* other's clean-up before reading it.
C6_ConcurrentInvocationsIsolated ==
    \A i \in InvIds :
        /\ seen[i].exists => seen[i].by \notin InvIds \ {i}
        /\ ~lost[i]

\* the wrappers that read a scratch file with a fixed name
ScratchTools == {"gobuster_dir", "dnsrecon"}

\* C7: once run_gobuster_dir or run_dnsrecon_scan has returned, with any
\* result, the scratch file it read during parsing is not on disk.
C7_ScratchFileRemovedOnReturn ==
    \A i \in InvIds :
        (pc[i] = "done" /\ call[i].tool \in ScratchTools /\ seen[i].exists)
        => ~fs[ScratchOf(call[i].tool)].exists

\* C8: a wrapper whose tool never exits is not stuck: its timeout can
\* expire and give the caller a result.
C8_HungToolTimesOut ==
    \A i \in InvIds : pc[i] = "hung" => ENABLED TimeoutExpires(i)

\* C9: when enum4linux or hashcat times out, the result is an error with a
\* timeout message if the output so far holds no record, and otherwise a
\* partial result: the records of that output, a timeout warning, no error.
C9_TimeoutKeepsParsedRecords ==
    \A i \in InvIds :
        (pc[i] = "done" /\ proc[i].kind = "hung"
            /\ call[i].tool \in {"enum4linux", "hashcat"})
        => IF Parsed(i) = <<>>
           THEN "error" \in DOMAIN result[i] /\ Contains(result[i].error, "timed out")
           ELSE /\ "error" \notin DOMAIN result[i]
                /\ KeepsRecords(i)
                /\ \E k \in WarningKeys(result[i]) : Contains(result[i][k], "timed out")

\* C10: every function that has finished gave its caller a result object or
\* a string: it neither raised nor returned nothing.
C10_AlwaysReturnsAResult ==
    \A i \in InvIds : pc[i] = "done" => ret[i] \in {"dict", "value", "str"}


\* the required target of a call is empty: "" or, for a list of targets, []
EmptyTarget(c) ==
    IF c.tool \in {"nuclei", "nmap"} THEN c.target = <<>> ELSE c.target = ""

\* the words by which a wrapper's message names its required input
InputName(tool) ==
    CASE tool \in {"gobuster_dir", "feroxbuster", "nikto"} -> "target url"
      [] tool \in {"gobuster_dns", "dnsrecon"} -> "domain"
      [] tool = "nuclei" -> "target urls"
      [] tool = "nmap" -> "targets"
      [] tool = "enum4linux" -> "target"
      [] tool = "hashcat" -> "hash file"
      [] OTHER -> "script"

\* kind and d are an error result whose message names the input c lacks
MissingInputReported(c, kind, d) ==
    /\ kind = "dict"
    /\ "error" \in DOMAIN d \/ ("status" \in DOMAIN d /\ d.status = "error")
    /\ Contains(Lower(ErrorText(d)), InputName(c.tool))

\* C11: a wrapper called with an empty target returns at once an error that
\* names the missing input; it builds and launches no command and the files
\* are left as they were: none is created, read or deleted.
C11_EmptyTargetIsRejected ==
    [][\A i \in InvIds :
          (pc[i] = "idle" /\ pc'[i] # "idle"
              /\ call'[i].tool \in Wrappers /\ EmptyTarget(call'[i]))
          => /\ pc'[i] = "done"
             /\ MissingInputReported(call'[i], ret'[i], result'[i])
             /\ argv'[i] = <<>> /\ proc'[i] = NoProc
             /\ seen'[i] = NoFile /\ temp'[i] = ""
             /\ fs' = fs]_vars

\* run_hashcat_crack has rejected an empty hash file and launched nothing
C11_Witness ==
    \E i \in InvIds :
        /\ pc[i] = "done" /\ call[i].tool = "hashcat" /\ EmptyTarget(call[i])
        /\ "error" \in DOMAIN result[i] /\ proc[i] = NoProc


\* the places of the command list that hold the call's target
TargetPlaces(c, command) ==
    {k \in 1..Len(command) :
        IF c.tool \in {"nuclei", "nmap"} THEN InSeq(command[k], c.target)
        ELSE command[k] = c.target}

\* the places of the command list that hold an option the caller supplied
OptionPlaces(c, command) == {k \in 1..Len(command) : InSeq(command[k], c.options)}

\* C12: the command a wrapper launches has the target before the caller's
\* options, and the output path that takes effect on it is the mandated
\* one: the scratch file the wrapper reads after the tool has exited.
C12_MandatedDefaultsWin ==
    \A i \in InvIds :
        (call[i].tool \in Wrappers /\ argv[i] # <<>>)
        => /\ \A t \in TargetPlaces(call[i], argv[i]) :
                 \A o \in OptionPlaces(call[i], argv[i]) : t < o
           /\ ReadPath(i) # "" /\ call[i].tool # "hashcat"
                 => ArtifactPath(call[i].tool, argv[i]) = ReadPath(i)


\* the wrappers that filter the caller's options
FilteringTools == {"nmap", "nikto", "nuclei"}

\* the flag prefixes a wrapper reserves for its own output
ConflictSet(tool) ==
    CASE tool = "nmap" -> {"-oX", "-oA", "-oG", "-oS", "-oN"}
      [] tool = "nikto" -> {"-f", "-format", "-o", "-output"}
      [] tool = "nuclei" -> {"-json", "-jsonl"}
      [] OTHER -> {}

\* opt prefix-matches the conflict set of the tool; nmap's flags are matched
\* as written, nikto's and nuclei's whatever their case
Conflicts(tool, opt) ==
    \E f \in ConflictSet(tool) :
        StartsWith(IF tool = "nmap" THEN opt ELSE Lower(opt), f)

\* the output flag the wrapper itself puts on the command
MandatedFlag(tool) ==
    CASE tool = "nmap" -> "-oX"
      [] tool = "nikto" -> "-o"
      [] OTHER -> "-jsonl"

\* C13: in the command of run_nmap_scan, run_nikto_scan and run_nuclei_scan
\* no option of the caller that matches the conflict set is left, the other
\* options are all there, unchanged and in their order, and the mandated
\* output flag occurs exactly once.
C13_ConflictingOptionsFiltered ==
    \A i \in InvIds :
        (call[i].tool \in FilteringTools /\ argv[i] # <<>>)
        => LET tool     == call[i].tool
               Kept(o)  == ~Conflicts(tool, o)
               kept     == SelectSeq(call[i].options, Kept)
               IsKept(e) == InSeq(e, kept)
           IN  /\ \A k \in 1..Len(argv[i]) :
                     Conflicts(tool, argv[i][k])
                         => argv[i][k] \in {MandatedFlag(tool), "-Format"}
               /\ SelectSeq(argv[i], IsKept) = kept
               /\ Cardinality({k \in 1..Len(argv[i]) : argv[i][k] = MandatedFlag(tool)}) = 1

\* nmap was launched for a call whose options held -oN and another option
C13_Witness ==
    \E i \in InvIds :
        /\ call[i].tool = "nmap" /\ pc[i] = "spawn"
        /\ InSeq("-oN", call[i].options) /\ ~InSeq("-oN", argv[i])
        /\ InSeq("-sV", argv[i])


\* the lines of a tool's stdout, as the parsers split it
StdoutLines(stdout) == IF stdout = "" THEN <<>> ELSE SplitSep(Strip(stdout), "\n")

\* a record line of gobuster dir: "/path (Status: 200) [Size: 1234]"
WellFormedDirLine(line) == StartsWith(line, "/") /\ Contains(line, " (Status: ")

\* a record line of gobuster dns: "Found: sub.example.com"
WellFormedDnsLine(line) == StartsWith(line, "Found: ") /\ Strip(Drop(line, 7)) # ""

\* how many lines of stdout are record lines of the tool
WellFormedCount(tool, stdout) ==
    LET lines == StdoutLines(stdout)
    IN  Cardinality({k \in 1..Len(lines) :
            IF tool = "gobuster_dir" THEN WellFormedDirLine(lines[k])
            ELSE WellFormedDnsLine(lines[k])})

\* C14: run_gobuster_dir (its output file aside) and run_gobuster_dns return
\* exactly as many records as stdout has well-formed record lines; the other
\* lines add no record and make no error: an error needs a non-zero exit
\* with no record line at all.
C14_MalformedLinesDropped ==
    \A i \in InvIds :
        (Exited(i) /\ call[i].tool \in {"gobuster_dir", "gobuster_dns"} /\ ~seen[i].exists)
        => LET n == WellFormedCount(call[i].tool, proc[i].stdout)
           IN  IF "error" \in DOMAIN result[i]
               THEN proc[i].rc # 0 /\ n = 0
               ELSE Len(result[i][RecordKey(call[i].tool)]) = n


\* the lines of stdout that decode to a JSON object, in their order
ObjectLines(stdout) ==
    LET IsObject(line) == JsonLoads(line).ok /\ JsonLoads(line).val.t = "obj"
    IN  SelectSeq(StdoutLines(stdout), IsObject)

\* the records of the JSON object lines of stdout alone
ObjectRecords(tool, stdout) ==
    LET lines == ObjectLines(stdout)
    IN  IF tool = "nuclei" THEN [k \in 1..Len(lines) |-> JsonLoads(lines[k]).val]
        ELSE FeroxLines(lines, <<>>).recs

\* C15: run_nuclei_scan and run_feroxbuster_scan return the records of the
\* stdout lines that decode to a JSON object, all of them and no other: a
\* line that does not decode to one adds no record, stops nothing and makes
\* no error; an error needs a non-zero exit with no record.
C15_BadJsonLineDropped ==
    \A i \in InvIds :
        (Exited(i) /\ call[i].tool \in {"nuclei", "feroxbuster"})
        => LET recs == ObjectRecords(call[i].tool, proc[i].stdout)
           IN  IF "error" \in DOMAIN result[i]
               THEN proc[i].rc # 0 /\ recs = <<>>
               ELSE result[i][RecordKey(call[i].tool)] = recs


\* the field that identifies a record of the tool
IdentityKey(tool) == IF tool = "gobuster_dir" THEN "path" ELSE "hash"

\* C16: the records run_gobuster_dir and run_hashcat_crack return have
\* pairwise different identity keys (path, hash), whether they came from
\* stdout or from the output or pot file.
C16_RecordsAreDeduplicated ==
    \A i \in InvIds :
        (pc[i] = "done" /\ call[i].tool \in {"gobuster_dir", "hashcat"}
            /\ RecordKey(call[i].tool) \in DOMAIN result[i])
        => LET recs == result[i][RecordKey(call[i].tool)]
               key  == IdentityKey(call[i].tool)
           IN  \A j, k \in 1..Len(recs) : recs[j][key] = recs[k][key] => j = k


\* invocation i is about to launch its tool: subprocess.run is being called
Launching(i) == pc[i] = "spawn"

\* C17: a wrapper launches its tool only as part of a fresh call, and the
\* launch ends once: by a launch failure, an exit or a hang that times out.
\* After any of them the invocation never launches again before it returns.
C17_NoRelaunch ==
    [][\A i \in InvIds :
          /\ Launching(i)' /\ ~Launching(i) => pc[i] = "idle"
          /\ Launching(i) /\ pc'[i] # pc[i]
                => /\ pc'[i] \in {"done", "parse", "hung"}
                   /\ pc'[i] = "done" => "error" \in DOMAIN result'[i]
                                            \/ "error_message" \in DOMAIN result'[i]
          /\ proc'[i] # proc[i] /\ proc'[i].kind \in {"exit", "hung"} => Launching(i)]_vars

\* run_hashcat_crack has reported a timeout of its one launch
C17_Witness ==
    \E i \in InvIds :
        /\ pc[i] = "done" /\ call[i].tool = "hashcat" /\ proc[i].kind = "hung"
        /\ result[i] = hashcat_timeout


\* C18: a HackerOne or Bugcrowd function called without its credentials
\* returns a string that starts with "Error:" and sends no request; when the
\* platform answers with a status outside 200..299 the function returns the
\* string "Error: <status> - <body>".
C18_RestErrorsAreStrings ==
    \A i \in InvIds :
        (pc[i] = "done" /\ call[i].tool \in RestFunctions)
        => /\ call[i].aux2 = PyNone
                => /\ ret[i] = "str" /\ StartsWith(result[i].text, "Error:")
                   /\ argv[i] = <<>> /\ proc[i] = NoProc
           /\ proc[i].kind = "http" /\ proc[i].rc \notin 200..299
                => /\ ret[i] = "str"
                   /\ result[i].text = "Error: " \o IntToStr(proc[i].rc) \o " - "
                                          \o proc[i].stdout


\* run_hashcat_crack has returned after hashcat exited with code rc and no
\* hash was cracked
HashcatFoundNothing(i, rc) ==
    /\ Exited(i) /\ call[i].tool = "hashcat"
    /\ proc[i].rc = rc /\ Parsed(i) = <<>>

ReverseLookup(i) ==
    /\ call[i].tool = "dnsrecon" /\ call[i].aux = "rvl"
    /\ Len(call[i].options) = 2 /\ call[i].options[1] = "-r" /\ call[i].options[2] # ""

\* C20: dnsrecon_reverse_lookup with a non-empty range launches dnsrecon
\* with scan type rvl and the option -r <range>, and what it returns is the
\* result of that scan, not the error of a missing input.
C20_ReverseLookupRuns ==
    \A i \in InvIds :
        ReverseLookup(i) /\ pc[i] # "idle"
        => /\ \E k \in 1..(Len(argv[i]) - 1) : argv[i][k] = "-t" /\ argv[i][k + 1] = "rvl"
           /\ \E k \in 1..(Len(argv[i]) - 1) :
                 argv[i][k] = "-r" /\ argv[i][k + 1] = call[i].options[2]
           /\ pc[i] = "done" => proc[i].kind = "exit" \/ absent[i]


(***************************************************************************)
(* The editor functions and the pillaging helpers.                         *)
(***************************************************************************)
\* the editor functions that change the file
EditTools == {"create", "str_replace", "insert"}

\* the step is a call of the editor function fn
EditStep(fn) == calls' = calls + 1 /\ call'[1].tool = fn

\* C21: an undo_edit that follows create, str_replace or insert calls on a
\* path leaves the file with exactly the content it had before the most
\* recent edit among them.
C21_UndoRestoresBeforeLastEdit ==
    [][(EditStep("undo_edit") /\ call[1].tool \in EditTools /\ seen[1].exists)
          => (fs'[EditPath].exists /\ fs'[EditPath].text = seen[1].text)]_vars

\* run_crackmapexec_and_parse has returned to caller i
CmeReturned(i) == call[i].tool = "crackmapexec" /\ ret[i] = "dict"

\* C22: run_crackmapexec_and_parse returns status "error" with a message
\* holding "not found" and the target echoed when the crackmapexec binary is
\* not available, and status "error" when the target is empty.
C22_CrackmapexecReportsErrors ==
    \A i \in InvIds :
        CmeReturned(i)
        => /\ absent[i]
              => /\ {"status", "message", "target"} \subseteq DOMAIN result[i]
                 /\ result[i].status = "error"
                 /\ Contains(Lower(result[i].message), "not found")
                 /\ result[i].target = call[i].target
           /\ call[i].target = ""
              => ("status" \in DOMAIN result[i] /\ result[i].status = "error")

\* the words of a text that are e-mail addresses, phone numbers and URLs
EmailsIn(text) ==
    {w \in {SplitWS(text)[k] : k \in 1..Len(SplitWS(text))} :
        FindFirst(w, "@") > 1 /\ Contains(Drop(w, FindFirst(w, "@")), ".")}

PhonesIn(text) ==
    {w \in {SplitWS(text)[k] : k \in 1..Len(SplitWS(text))} :
        /\ \A k \in 1..Len(w) : CharAt(w, k) \in Digits \cup {"+", "-"}
        /\ Cardinality({k \in 1..Len(w) : CharAt(w, k) \in Digits}) >= 7}

UrlsIn(text) ==
    {w \in {SplitWS(text)[k] : k \in 1..Len(SplitWS(text))} :
        StartsWith(w, "http://") \/ StartsWith(w, "https://")}

\* every member of found is an element of the list under key
Lists(d, key, found) == key \in DOMAIN d /\ \A w \in found : InSeq(w, d[key])

\* C23: extract_pii returns the keys emails, phone_numbers and urls, lists
\* every e-mail address, phone number and URL of the text under them, and has
\* empty emails and phone_numbers when the text holds none.
C23_PiiIsExtracted ==
    \A i \in InvIds :
        (call[i].tool = "extract_pii" /\ ret[i] = "dict")
        => /\ Lists(result[i], "emails", EmailsIn(call[i].target))
           /\ Lists(result[i], "phone_numbers", PhonesIn(call[i].target))
           /\ Lists(result[i], "urls", UrlsIn(call[i].target))
           /\ EmailsIn(call[i].target) = {} => result[i].emails = <<>>
           /\ PhonesIn(call[i].target) = {} => result[i].phone_numbers = <<>>


(***************************************************************************)
(* The temporary file of run_nikto_scan.                                   *)
(***************************************************************************)
\* invocation i of run_nikto_scan has made its temporary file
HoldsTemp(i) == call[i].tool = "nikto" /\ temp[i] # ""

\* invocation i has not returned yet: its temporary file is in use
UsesTemp(i) == HoldsTemp(i) /\ pc[i] # "done"

\* what holds of the temporary files in every state: no two invocations
\* use one at the same time, nikto is told the invocation's own, the file
\* read was written for this invocation, and none is left when the function
\* has returned (a file of that name is then another invocation's)
OwnTempOnly ==
    \A i \in InvIds :
        HoldsTemp(i)
        => /\ \A j \in InvIds \ {i} : (UsesTemp(i) /\ UsesTemp(j)) => temp[j] # temp[i]
           /\ ArtifactPath("nikto", argv[i]) = temp[i]
           /\ seen[i].exists => seen[i].by = i
           /\ pc[i] = "done" => ~(fs[temp[i]].exists /\ fs[temp[i]].by = i)

\* what holds of every step: a temporary file is made or written only for
\* the invocation that holds it, and removed only by that invocation as it
\* returns
OwnTempSteps ==
    \A p \in NiktoTemps :
        /\ (fs'[p].exists /\ fs'[p] # fs[p])
           => \E i \in InvIds : HoldsTemp(i)' /\ temp'[i] = p /\ fs'[p].by = i
        /\ (fs[p].exists /\ ~fs'[p].exists)
           => \E i \in InvIds : HoldsTemp(i) /\ temp[i] = p /\ fs[p].by = i
                                   /\ pc[i] # "done" /\ pc'[i] = "done"

\* C24: concurrent run_nikto_scan invocations past validation each make a
\* uniquely named temporary file, pass it to nikto, read and delete only that
\* file, and leave no file behind on any return path.
C24_NiktoTempFilesAreOwn == []OwnTempOnly /\ [][OwnTempSteps]_vars

\* one invocation has returned without its file while the other still holds
\* a file of its own
C24_Witness ==
    \E i \in InvIds : \E j \in InvIds \ {i} :
        /\ HoldsTemp(i) /\ pc[i] = "done" /\ proc[i].kind = "exit"
        /\ ~fs[temp[i]].exists
        /\ HoldsTemp(j) /\ pc[j] = "parse" /\ fs[temp[j]].exists


(***************************************************************************)
(* The exit codes of nmap and enum4linux.                                  *)
(***************************************************************************)
\* run_nmap_scan has returned to caller i after nmap left exit code rc and
\* the text stdout
NmapExited(i, rc, stdout) ==
    /\ Exited(i) /\ call[i].tool = "nmap"
    /\ proc[i].rc = rc /\ proc[i].stdout = stdout

Enum4Findings == {"workgroup_domain", "os_info", "users", "groups", "shares"}

\* something was parsed from the stdout of enum4linux
Enum4Found(results) ==
    \/ results.workgroup_domain # PyNone
    \/ results.os_info # EmptyDict
    \/ results.users # <<>> \/ results.groups # <<>> \/ results.shares # <<>>

\* C26: run_enum4linux_scan keeps whatever it parsed of workgroup_domain,
\* os_info, users, groups and shares when enum4linux exits non-zero, under a
\* warning; it returns an error alone only when nothing was parsed.
C26_FindingsSurviveNonZeroExit ==
    \A i \in InvIds :
        (Exited(i) /\ call[i].tool = "enum4linux" /\ proc[i].rc # 0)
        => LET parsed == enum4linux_parse(call[i].target, proc[i].stdout)
           IN  IF Enum4Found(parsed)
               THEN /\ Enum4Findings \cup {"warning"} \subseteq DOMAIN result[i]
                    /\ \A k \in Enum4Findings : result[i][k] = parsed[k]
               ELSE DOMAIN result[i] = {"error"}


(***************************************************************************)
(* The files the wrappers read.                                            *)
(***************************************************************************)
\* the file run_dnsrecon_scan found can be used: it exists and is JSON
UsableJson(file) == file.exists /\ JsonLoads(file.text).ok

\* the records a JSON document holds for run_dnsrecon_scan
RecordsOfJson(val) ==
    IF val.t = "arr" THEN val.v
    ELSE IF val.t = "obj" /\ "dns_records" \in DOMAIN val.v THEN val.v.dns_records
    ELSE <<>>

\* the one source the records of invocation i must come from
DnsreconSource(i) ==
    IF UsableJson(seen[i]) THEN RecordsOfJson(JsonLoads(seen[i].text).val)
    ELSE dnsrecon_stdout(proc[i].stdout)

\* C27: run_dnsrecon_scan takes its records from the JSON scratch file when
\* the file exists and decodes, and from stdout exactly when the file is
\* missing or is not JSON; the two are never mixed, and the result is an error
\* only on a non-zero exit without records, never because of the fallback.
C27_DnsreconFileOrStdout ==
    \A i \in InvIds :
        (Exited(i) /\ call[i].tool = "dnsrecon")
        => IF "error" \in DOMAIN result[i]
           THEN proc[i].rc # 0 /\ DnsreconSource(i) = <<>>
           ELSE result[i].dns_records = DnsreconSource(i)

\* the file held records and stdout held others: only the file's are returned
C27_Witness ==
    \E i \in InvIds :
        /\ Exited(i) /\ call[i].tool = "dnsrecon"
        /\ UsableJson(seen[i]) /\ DnsreconSource(i) # <<>>
        /\ dnsrecon_stdout(proc[i].stdout) # <<>>
        /\ "error" \notin DOMAIN result[i]
        /\ result[i].dns_records = DnsreconSource(i)



\* the wrappers that read a file with a fixed name
FixedFileTools == {"gobuster_dir", "dnsrecon", "hashcat"}

\* the file invocation i read, if its own tool process wrote it
OwnFile(i) == IF seen[i].exists /\ seen[i].by = i THEN seen[i] ELSE NoFile

\* C28: in a sequence of run_gobuster_dir, run_dnsrecon_scan and
\* run_hashcat_crack invocations the result of each is what the output of its
\* own tool process gives: a scratch or pot file left by an earlier invocation
\* or another program adds nothing to it.
C28_NoStaleFileInResult ==
    \A i \in InvIds :
        (Exited(i) /\ call[i].tool \in FixedFileTools)
        => result[i] = Outcome(call[i], proc[i], OwnFile(i), temp[i]).value



(***************************************************************************)
(* The severity of a Bugcrowd submission.                                  *)
(***************************************************************************)
\* severity is a string of decimal digits with a value from 1 to 5
ValidSeverity(severity) ==
    /\ severity # ""
    /\ \A k \in 1..Len(severity) : CharAt(severity, k) \in Digits
    /\ StrToInt(severity) \in 1..5

\* bugcrowd_create_submission was called by caller i with credentials
SubmissionCalled(i) ==
    call[i].tool = "bugcrowd_create_submission" /\ call[i].aux2 # PyNone

\* C29: bugcrowd_create_submission issues its request only with credentials
\* and a severity that is a string of decimal digits with a value from 1 to
\* 5, and then sends the integer; for any other severity it returns an
\* "Error: Severity ..." string and issues no request.
C29_SeverityIsValidated ==
    \A i \in InvIds :
        /\ (call[i].tool = "bugcrowd_create_submission" /\ argv[i] # <<>>)
           => /\ call[i].aux2 # PyNone
              /\ ValidSeverity(call[i].aux)
              /\ argv[i][1].severity = StrToInt(call[i].aux)
        /\ (SubmissionCalled(i) /\ ~ValidSeverity(call[i].aux))
           => /\ argv[i] = <<>>
              /\ ret[i] = "str"
              /\ StartsWith(result[i].text, "Error: Severity ")



(***************************************************************************)
(* The backup of insert.                                                   *)
(***************************************************************************)
\* the step is an insert that fails because insert_line is past the last line
InsertExceeds == EditStep("insert") /\ StartsWith(result[1].text, "Error: Line ")'

\* C30: an insert that fails because insert_line exceeds the number of lines
\* changes neither the file nor an existing backup path.bak, so that the
\* backup still holds what the last successful insert saved for undo_edit.
C30_FailedInsertChangesNothing ==
    [][InsertExceeds
          => /\ fs'[EditPath] = fs[EditPath]
             /\ fs[backup_path(EditPath)].exists
                => fs'[backup_path(EditPath)] = fs[backup_path(EditPath)]]_vars

=============================================================================
